---- MODULE Spec2Model ----
(***************************************************************************)
(* Attachment service of meshx-org/neon: one tenant shard, its intent /    *)
(* observed state, the background Reconciler (general case and live        *)
(* migration) and the page servers it configures.                          *)
(*                                                                         *)
(* Option<T> values are modelled as sets with at most one element:         *)
(* {} is None and {x} is Some(x).                                          *)
(***************************************************************************)
EXTENDS Integers, Sequences, FiniteSets, TLC

\* ---------------------------------------------------------------- bounds
NumNodes == 2
MaxReconcilers == 2
MaxSequence == 2
MaxSequenceCancel == 3
MaxGeneration == 4
NumTimelines == 2
MaxLsn == 1
MaxShardCount == 3
MaxStripeSize == 2
MaxOffset == 1
MaxAttemptsToFail == 2
MaxAttempts == 4
MaxGuards == 3
MaxKeys == 2
MaxFailures == 2
MaxSequenceValue == 15
MaxDeleteKeys == 5
MaxPathListLen == 3
MaxFlushOps == 1
\* remote_storage::MAX_KEYS_PER_DELETE is 1000; the worker is run with a
\* batch size that the key bound can exceed.
MAX_KEYS_PER_DELETE == 2

Nodes == 1..NumNodes
RecIds == 1..MaxReconcilers
Timelines == 1..NumTimelines

\* ---------------------------------------------------------------- values
Some(x) == {x}
None == {}
IsSome(o) == o # {}
Unwrap(o) == CHOOSE x \in o : TRUE

Max(a, b) == IF a >= b THEN a ELSE b

\* LocationConfig: the shard and tenant_conf fields are the same in every
\* configuration of one shard and are left out.
LocationConfig(mode, generation, secondary_conf) ==
    [mode |-> mode, generation |-> generation, secondary_conf |-> secondary_conf]

build_location_config(mode, generation, secondary_conf) ==
    LocationConfig(mode, generation, secondary_conf)

\* Faulty variant (C18): the attached configuration has the wrong mode.
attached_location_conf_multi(generation) ==
    LocationConfig("AttachedMulti", Some(generation), None)

attached_location_conf(generation) ==
    LocationConfig("AttachedSingle", Some(generation), None)

secondary_location_conf ==
    LocationConfig("Secondary", None, Some([warm |-> TRUE]))

detached_location_conf ==
    LocationConfig("Detached", None, None)

\* Faulty variant (C9): the generation is not advanced.
Generation_same(g) == g

Generation_next(g) == g + 1

\* ObservedState.locations: a map NodeId -> ObservedStateLocation {conf}.
\* A key that is not in the map has present = FALSE.
Absent == [present |-> FALSE, conf |-> None]
Uncertain == [present |-> TRUE, conf |-> None]
Known(c) == [present |-> TRUE, conf |-> Some(c)]

EmptyObserved == [n \in Nodes |-> Absent]
ObservedKeys(obs) == {n \in Nodes : obs[n].present}

NoIntent == [attached |-> None, secondary |-> {}]
all_pageservers(intent) == intent.attached \cup intent.secondary

\* HashMap<TimelineId, Lsn>: timelines that are not in the map have lsn -1.
NoTimelines == [t \in Timelines |-> 0 - 1]

SetToSeqs(S) ==
    {s \in [1..Cardinality(S) -> S] : \A i, j \in 1..Cardinality(S) : i # j => s[i] # s[j]}

\* ---------------------------------------------------------------- state
VARIABLES
    availability,   \* node registry: NodeId -> NodeAvailability
    tenant,         \* TenantShardState of the one shard (last_result: how the
                    \* reconcile of the current sequence ended, "none" before)
    recs,           \* the Reconciler tasks (slot -> Reconciler)
    ps,             \* LocationConfig each page server holds for the shard
    lsn,            \* page server -> timeline -> last_record_lsn
    compute,        \* node the compute hook was last told to use
    wire,           \* generations carried by the last two location_config PUTs
    vhist,          \* validate calls: the last answer, one remembered refusal
    hook,           \* generations returned by the last two attach_hook calls
    http,           \* the last request handled by http.rs and its response
                    \* (node_id, config_req: those of a node-configure request)
    shard_map,      \* one call of key_to_shard_number: its inputs and outcome
    unreliable,     \* an UnreliableWrapper and what became of each attempt
    uninit,         \* a Tenant's timelines, timelines_creating and the
                    \* UninitializedTimeline guards made for it
    executor,       \* an ExecutorWorker of the deletion queue
    counter         \* a Sequence used as a MonotonicCounter, and the last call

attachment_vars == <<availability, tenant, recs, ps, lsn, compute, wire, vhist, hook, http>>
library_vars == <<shard_map, unreliable, uninit, executor, counter>>
vars == <<availability, tenant, recs, ps, lsn, compute, wire, vhist, hook, http,
          shard_map, unreliable, uninit, executor, counter>>

Policies == {"Single", "Double1"}
SecondaryCount(policy) == IF policy = "Single" THEN 0 ELSE 1

IdleReconciler ==
    [pc |-> "idle", sequence |-> 0, generation |-> 0, intent |-> NoIntent,
     observed |-> EmptyObserved, pageservers |-> [n \in Nodes |-> "Active"],
     cancel |-> FALSE, origin |-> None, destination |-> None, baseline |-> None,
     changes |-> <<>>, inflight |-> None, result |-> "none", log |-> <<>>]

\* ---------------------------------------------------------------- sequence
\* Sequence(u64): the values stay far below 2^64 here.
\* Faulty variant (C33): the value is not advanced.
Sequence_same(self) == self

Sequence_next(self) == self + 1

SequenceCounter(value) == [value |-> value, op |-> "new", v |-> None, pc |-> "ready"]

\* self.sequence = self.sequence.next()
sequence_next ==
    /\ counter.pc = "ready"
    /\ counter.value < MaxSequenceValue
    /\ counter' = [counter EXCEPT !.value = Sequence_next(counter.value),
                                  !.op = "next", !.v = None]
    /\ UNCHANGED <<attachment_vars, shard_map, unreliable, uninit, executor>>

\* MonotonicCounter::cnt_advance: assert!(*self <= v); *self = v;
cnt_advance(v) ==
    /\ counter.pc = "ready"
    /\ counter' = IF counter.value <= v
                  THEN [counter EXCEPT !.value = v, !.op = "cnt_advance", !.v = Some(v)]
                  ELSE [counter EXCEPT !.pc = "panicked", !.op = "cnt_advance",
                                       !.v = Some(v)]
    /\ UNCHANGED <<attachment_vars, shard_map, unreliable, uninit, executor>>

\* ---------------------------------------------------------------- key to shard
\* A u32 is kept as its two 16-bit halves, [hi, lo] for hi * 2^16 + lo.
U16 == 2 ^ 16
U8 == 2 ^ 8
u32(hi, lo) == [hi |-> hi, lo |-> lo]
U32Values(his, los) == {u32(hi, lo) : hi \in his, lo \in los}

\* a + b in u32, wrapped.
u32_wrapping_add(a, b) ==
    u32((a.hi + b.hi + ((a.lo + b.lo) \div U16)) % U16, (a.lo + b.lo) % U16)

\* a + b does not fit in a u32.
u32_add_overflows(a, b) == a.hi + b.hi + ((a.lo + b.lo) \div U16) >= U16

\* a / d in u32, for a divisor d of at most 2^15.
u32_div(a, d) == u32(a.hi \div d, (((a.hi % d) * U16) + a.lo) \div d)

\* `a as u8`.
u32_as_u8(a) == a.lo % U8

\* Stripe size in number of pages: 256MiB divided by 8kiB page size.
DEFAULT_STRIPE_SIZE == (256 * 1024) \div 8

\* ShardNumber::within_count.
within_count(number, count) == number < count

\* Faulty variant (C24): the sum is cut to a u8 and not reduced by the count.
key_to_shard_number_truncated(count, stripe_size, hash, blkno) ==
    IF count = 0
    THEN 0
    ELSE u32_as_u8(u32_wrapping_add(hash, u32_div(blkno, stripe_size)))

\* key_to_shard_number, with hash the value of hasher.finish32() and blkno
\* key.field6, where no arithmetic check fails: `stripe as u8 % (count.0 as
\* u8)` casts before it takes the remainder.
key_to_shard_number(count, stripe_size, hash, blkno) ==
    IF count = 0
    THEN 0
    ELSE LET stripe == u32_wrapping_add(hash, u32_div(blkno, stripe_size))
         IN u32_as_u8(stripe) % count

\* `hash + (blkno / stripe_size.0)` leaves u32: a build with overflow checks
\* panics there, a build without them wraps.
stripe_overflows(count, stripe_size, hash, blkno) ==
    count # 0 /\ u32_add_overflows(hash, u32_div(blkno, stripe_size))

\* The inputs of a call: values next to 0, to 2^8, to 2^16 and to 2^32.
ShardCounts == 0 .. MaxShardCount
StripeSizes == (1 .. MaxStripeSize) \cup {DEFAULT_STRIPE_SIZE}
Hashes ==
    U32Values({0}, (0 .. MaxOffset) \cup ((U8 - 1) .. (U8 + MaxOffset)))
       \cup U32Values({1}, 0 .. MaxOffset)
       \cup U32Values({U16 - 1}, (U16 - 1 - MaxOffset) .. (U16 - 1))
Blknos ==
    U32Values({0}, (0 .. MaxOffset) \cup {DEFAULT_STRIPE_SIZE})
       \cup U32Values({U16 - 1}, {U16 - 1})

\* A ShardIdentity and a key, before the call.
ShardCall(count, stripe_size, hash, blkno) ==
    [count |-> count, stripe_size |-> stripe_size, hash |-> hash, blkno |-> blkno,
     pc |-> "call", number |-> 0]

\* ShardIdentity::get_shard_number / ShardMap::get_shard_number.
get_shard_number ==
    /\ shard_map.pc = "call"
    /\ \/ shard_map' = [shard_map EXCEPT
                           !.pc = "returned",
                           !.number = key_to_shard_number(shard_map.count,
                                                          shard_map.stripe_size,
                                                          shard_map.hash, shard_map.blkno)]
       \/ /\ stripe_overflows(shard_map.count, shard_map.stripe_size,
                               shard_map.hash, shard_map.blkno)
          /\ shard_map' = [shard_map EXCEPT !.pc = "panicked"]
    /\ UNCHANGED <<attachment_vars, unreliable, uninit, executor, counter>>

\* ---------------------------------------------------------------- simulated failures
\* RemoteOp, over one RemotePath.
RemoteOps == {"ListPrefixes", "Upload", "Download", "Delete", "DeleteObjects"}

\* RemoteOp::Delete(path) for the paths of a list given to delete_objects.
DeletePaths == {"Delete(a)", "Delete(b)", "Delete(c)"}

\* UnreliableWrapper::new.  attempts[op] = 0 stands for no entry of the map;
\* calls[op] is what became of each attempt of op so far: "Err" for the
\* simulated failure, "Inner" for a call that reached the inner storage.
\* paths is the list that a caller retries delete_objects with and result is
\* what its last call returned.
UnreliableWrapper_new(attempts_to_fail) ==
    [attempts_to_fail |-> attempts_to_fail,
     attempts |-> [op \in RemoteOps \cup DeletePaths |-> 0],
     calls |-> [op \in RemoteOps |-> <<>>],
     paths |-> <<>>, result |-> "none"]

\* UnreliableWrapper::attempt: is the result Ok?
attempt_ok(w, op) ==
    w.attempts[op] # 0 /\ w.attempts[op] + 1 >= w.attempts_to_fail

\* UnreliableWrapper::attempt: the map after the call.
attempt_entry(w, op) ==
    IF w.attempts[op] = 0
    THEN 1
    ELSE IF w.attempts[op] + 1 >= w.attempts_to_fail
         THEN 0
         ELSE w.attempts[op] + 1

\* A method that calls attempt and then the inner storage: list_prefixes,
\* upload, download, delete.
through(w, op) ==
    [w EXCEPT !.attempts[op] = attempt_entry(w, op),
              !.calls[op] = Append(@, IF attempt_ok(w, op) THEN "Inner" ELSE "Err")]

AttemptsBelow(op, bound) == Len(unreliable.calls[op]) < bound

remote_call(op) ==
    /\ op # "DeleteObjects"
    /\ AttemptsBelow(op, MaxAttempts)
    /\ unreliable' = through(unreliable, op)
    /\ UNCHANGED <<attachment_vars, shard_map, uninit, executor, counter>>

\* UnreliableWrapper::delete_objects: after its own attempt it deletes the
\* path through self.delete, which is an attempt of Delete.
remote_delete_objects ==
    /\ AttemptsBelow("DeleteObjects", MaxAttempts)
    /\ LET w == unreliable
           entered == [w EXCEPT !.attempts["DeleteObjects"] =
                                    attempt_entry(w, "DeleteObjects")]
       IN IF attempt_ok(w, "DeleteObjects")
          THEN /\ AttemptsBelow("Delete", MaxAttempts)
               /\ unreliable' =
                     [through(entered, "Delete") EXCEPT
                        !.calls["DeleteObjects"] =
                            Append(@, IF attempt_ok(entered, "Delete")
                                      THEN "Inner" ELSE "Err")]
          ELSE unreliable' = [entered EXCEPT !.calls["DeleteObjects"] = Append(@, "Err")]
    /\ UNCHANGED <<attachment_vars, shard_map, uninit, executor, counter>>

\* self.delete(path) for each path of the list in turn, with an inner
\* storage whose delete succeeds: the wrapper afterwards and error_counter.
RECURSIVE delete_each(_, _)
delete_each(w, paths) ==
    IF paths = <<>>
    THEN [w |-> w, error_counter |-> 0]
    ELSE LET path == Head(paths)
             rest == delete_each([w EXCEPT !.attempts[path] = attempt_entry(w, path)],
                                 Tail(paths))
         IN [w |-> rest.w,
             error_counter |-> rest.error_counter + IF attempt_ok(w, path) THEN 0 ELSE 1]

\* UnreliableWrapper::delete_objects(paths) as a caller calls it that repeats
\* the call with the same list until it returns Ok.
delete_objects_retry ==
    /\ unreliable.result # "Ok"
    /\ LET w == unreliable
           entered == [w EXCEPT !.attempts["DeleteObjects"] =
                                    attempt_entry(w, "DeleteObjects")]
       IN IF attempt_ok(w, "DeleteObjects")
          THEN LET deleted == delete_each(entered, w.paths)
               IN unreliable' = [deleted.w EXCEPT
                                   !.result = IF deleted.error_counter > 0
                                              THEN "Err" ELSE "Ok"]
          ELSE unreliable' = [entered EXCEPT !.result = "Err"]
    /\ UNCHANGED <<attachment_vars, shard_map, uninit, executor, counter>>

\* ---------------------------------------------------------------- timeline creation
GuardIds == 1 .. MaxGuards

\* An UninitializedTimeline that was not constructed yet.  pc: "none", then
\* "refused" (new returned error) or "alive", "finished" (finish_creation
\* ran, the guard is not dropped yet), "dropped".  raw_timeline: "None", or
\* whether the timeline's disk_consistent_lsn is "Valid" or "Invalid".
\* held: new was given a timeline; inserted: finish_creation put it into the
\* map; cleaned: cleanup_timeline_directory was called for it.
NoGuard ==
    [pc |-> "none", timeline_id |-> 0, raw_timeline |-> "None", held |-> FALSE,
     error |-> "none", result |-> "none", inserted |-> FALSE, cleaned |-> FALSE]

RawTimelines == {"None", "Valid", "Invalid"}

\* Faulty variant (C27): timelines_creating is not looked at.
UninitializedTimeline_new_unguarded(g, timeline_id, raw_timeline) ==
    /\ uninit.guards[g].pc = "none"
    /\ IF timeline_id \in uninit.timelines
       THEN uninit' = [uninit EXCEPT
                         !.guards[g] = [@ EXCEPT !.pc = "refused",
                                                 !.timeline_id = timeline_id,
                                                 !.error = "AlreadyExists"]]
       ELSE uninit' = [uninit EXCEPT
                         !.timelines_creating = @ \cup {timeline_id},
                         !.guards[g] = [@ EXCEPT !.pc = "alive",
                                                 !.timeline_id = timeline_id,
                                                 !.raw_timeline = raw_timeline,
                                                 !.held = raw_timeline # "None"]]
    /\ UNCHANGED <<attachment_vars, shard_map, unreliable, executor, counter>>

\* UninitializedTimeline::new, under both locks.
UninitializedTimeline_new(g, timeline_id, raw_timeline) ==
    /\ uninit.guards[g].pc = "none"
    /\ IF timeline_id \in uninit.timelines
       THEN uninit' = [uninit EXCEPT
                         !.guards[g] = [@ EXCEPT !.pc = "refused",
                                                 !.timeline_id = timeline_id,
                                                 !.error = "AlreadyExists"]]
       ELSE IF timeline_id \in uninit.timelines_creating
            THEN uninit' = [uninit EXCEPT
                              !.guards[g] = [@ EXCEPT !.pc = "refused",
                                                      !.timeline_id = timeline_id,
                                                      !.error = "AlreadyCreating"]]
            ELSE uninit' = [uninit EXCEPT
                              !.timelines_creating = @ \cup {timeline_id},
                              !.guards[g] = [@ EXCEPT !.pc = "alive",
                                                      !.timeline_id = timeline_id,
                                                      !.raw_timeline = raw_timeline,
                                                      !.held = raw_timeline # "None"]]
    /\ UNCHANGED <<attachment_vars, shard_map, unreliable, executor, counter>>

\* UninitializedTimeline::finish_creation up to its return; the guard itself
\* is dropped after the timelines lock is released.
finish_creation(g) ==
    LET guard == uninit.guards[g]
        taken == [guard EXCEPT !.pc = "finished", !.raw_timeline = "None"]
    IN /\ guard.pc = "alive"
       /\ IF guard.raw_timeline = "None"
          THEN uninit' = [uninit EXCEPT !.guards[g] = [taken EXCEPT !.result = "Err"]]
          ELSE IF guard.raw_timeline = "Invalid"
               THEN uninit' = [uninit EXCEPT !.guards[g] = [taken EXCEPT !.result = "Err"]]
               ELSE IF guard.timeline_id \in uninit.timelines
                    THEN uninit' = [uninit EXCEPT
                                      !.guards[g] = [taken EXCEPT !.result = "Err"]]
                    ELSE uninit' = [uninit EXCEPT
                                      !.timelines = @ \cup {guard.timeline_id},
                                      !.guards[g] = [taken EXCEPT !.result = "Ok",
                                                                  !.inserted = TRUE]]
       /\ UNCHANGED <<attachment_vars, shard_map, unreliable, executor, counter>>

\* Drop for UninitializedTimeline.
drop(g) ==
    LET guard == uninit.guards[g]
    IN /\ guard.pc \in {"alive", "finished"}
       /\ uninit' = [uninit EXCEPT
                       !.timelines_creating = @ \ {guard.timeline_id},
                       !.guards[g] = [guard EXCEPT !.pc = "dropped",
                                                   !.raw_timeline = "None",
                                                   !.cleaned = guard.raw_timeline # "None"]]
       /\ UNCHANGED <<attachment_vars, shard_map, unreliable, executor, counter>>

\* ---------------------------------------------------------------- deletion executor
Keys == 1 .. MaxKeys
SeqRange(q) == {q[i] : i \in 1 .. Len(q)}

\* ExecutorWorker::new.  entry, executed, failures and result describe the
\* flush that runs or ran last: the accumulator when it was entered, the keys
\* of its delete_objects calls that returned Ok, the number of its calls that
\* returned an error, and what it returned.
\* background's own position is bg, the Delete list it works on is list and
\* the FlushOp it holds is flush_op; rx is the channel (closed: no sender is
\* left) and sent_keys the number of keys sent into it so far.  received,
\* pushed, deleted, fired and dropped record what happened: the keys of the
\* Delete messages taken from rx, the keys pushed to the accumulator in
\* order, the keys of all delete_objects calls that returned Ok, and the
\* FlushOps fired and dropped.
ExecutorWorker_new ==
    [accumulator |-> <<>>, cancel |-> FALSE, pc |-> "idle", entry |-> <<>>,
     executed |-> {}, failures |-> 0, result |-> "none",
     bg |-> "loop", rx |-> <<>>, closed |-> FALSE, sent_keys |-> 0, sent_ops |-> 0,
     list |-> <<>>, flush_op |-> None,
     received |-> {}, pushed |-> <<>>, deleted |-> {}, fired |-> {}, dropped |-> {}]

\* ExecutorWorker::background takes a path of a Delete message.
accumulate(path) ==
    /\ executor.pc = "idle"
    /\ path \notin SeqRange(executor.accumulator)
    /\ executor' = [executor EXCEPT !.accumulator = Append(@, path)]
    /\ UNCHANGED <<attachment_vars, shard_map, unreliable, uninit, counter>>

\* The CancellationToken is fired.
executor_cancel ==
    /\ ~executor.cancel
    /\ executor' = [executor EXCEPT !.cancel = TRUE]
    /\ UNCHANGED <<attachment_vars, shard_map, unreliable, uninit, counter>>

\* ExecutorWorker::flush is entered.
flush_enter ==
    /\ executor.pc = "idle"
    /\ executor' = [executor EXCEPT !.pc = "flush", !.entry = executor.accumulator,
                                    !.executed = {}, !.failures = 0, !.result = "none"]
    /\ UNCHANGED <<attachment_vars, shard_map, unreliable, uninit, counter>>

\* The loop condition of flush; remote_delete sends the accumulator.
flush_loop ==
    /\ executor.pc = "flush"
    /\ executor' = [executor EXCEPT
                       !.pc = IF executor.accumulator # <<>> /\ ~executor.cancel
                              THEN "remote_delete"
                              ELSE "flush_end"]
    /\ UNCHANGED <<attachment_vars, shard_map, unreliable, uninit, counter>>

\* Faulty variant (C28): the accumulator is cleared whatever the call returned.
remote_delete_done_clears_always(ok) ==
    /\ executor.pc = "remote_delete"
    /\ ~ok => executor.failures < MaxFailures
    /\ executor' = [executor EXCEPT
                       !.pc = "flush",
                       !.accumulator = <<>>,
                       !.executed = IF ok THEN @ \cup SeqRange(executor.accumulator) ELSE @,
                       !.deleted = IF ok THEN @ \cup SeqRange(executor.accumulator) ELSE @,
                       !.failures = IF ok THEN @ ELSE @ + 1]
    /\ UNCHANGED <<attachment_vars, shard_map, unreliable, uninit, counter>>

\* remote_delete returns (the failpoint or delete_objects decides how) and
\* flush matches on the result.
remote_delete_done(ok) ==
    /\ executor.pc = "remote_delete"
    /\ ~ok => executor.failures < MaxFailures
    /\ executor' = [executor EXCEPT
                       !.pc = "flush",
                       !.accumulator = IF ok THEN <<>> ELSE @,
                       !.executed = IF ok THEN @ \cup SeqRange(executor.accumulator) ELSE @,
                       !.deleted = IF ok THEN @ \cup SeqRange(executor.accumulator) ELSE @,
                       !.failures = IF ok THEN @ ELSE @ + 1]
    /\ UNCHANGED <<attachment_vars, shard_map, unreliable, uninit, counter>>

\* Faulty variant (C34): flush returns Ok whatever the token says.
flush_end_ok_always ==
    /\ executor.pc = "flush_end"
    /\ executor' = [executor EXCEPT !.pc = "idle", !.result = "Ok"]
    /\ UNCHANGED <<attachment_vars, shard_map, unreliable, uninit, counter>>

\* The end of flush: the token is looked at once more.
flush_end ==
    /\ executor.pc = "flush_end"
    /\ executor' = [executor EXCEPT
                       !.pc = "idle",
                       !.result = IF executor.cancel THEN "ShuttingDown" ELSE "Ok"]
    /\ UNCHANGED <<attachment_vars, shard_map, unreliable, uninit, counter>>

\* ---- ExecutorWorker::background
ExecutorMessage_Delete(list) == [type |-> "Delete", list |-> list, flush_op |-> 0]
ExecutorMessage_Flush(flush_op) == [type |-> "Flush", list |-> <<>>, flush_op |-> flush_op]

Min(a, b) == IF a <= b THEN a ELSE b

\* A sender puts a Delete message with n new keys on the channel.
send_delete(n) ==
    /\ ~executor.closed
    /\ executor.sent_keys + n <= MaxDeleteKeys
    /\ executor' = [executor EXCEPT
                       !.rx = Append(@, ExecutorMessage_Delete(
                                  [i \in 1 .. n |-> executor.sent_keys + i])),
                       !.sent_keys = @ + n]
    /\ UNCHANGED <<attachment_vars, shard_map, unreliable, uninit, counter>>

\* A sender puts a Flush message on the channel.
send_flush ==
    /\ ~executor.closed
    /\ executor.sent_ops < MaxFlushOps
    /\ executor' = [executor EXCEPT
                       !.rx = Append(@, ExecutorMessage_Flush(executor.sent_ops + 1)),
                       !.sent_ops = @ + 1]
    /\ UNCHANGED <<attachment_vars, shard_map, unreliable, uninit, counter>>

\* The last sender is dropped.
close_senders ==
    /\ ~executor.closed
    /\ executor' = [executor EXCEPT !.closed = TRUE]
    /\ UNCHANGED <<attachment_vars, shard_map, unreliable, uninit, counter>>

\* self.flush() is called from background: flush runs until its pc is back
\* at "idle", and background goes on at return_to.
flush_call(e, return_to) ==
    [e EXCEPT !.bg = return_to, !.pc = "flush", !.entry = e.accumulator,
              !.executed = {}, !.failures = 0, !.result = "none"]

\* return Err(DeletionQueueError::ShuttingDown): whatever background holds
\* is dropped with it.
background_stop(e) ==
    [e EXCEPT !.bg = "stopped", !.list = <<>>, !.flush_op = None,
              !.dropped = @ \cup e.flush_op]

\* Faulty variant (C39): the keys are copied from the front of the list while
\* its end is cut off.
take_keys_wrong_range(e) ==
    LET available_slots == MAX_KEYS_PER_DELETE - Len(e.accumulator)
        take_count == Min(available_slots, Len(e.list))
        drained == SubSeq(e.list, 1, take_count)
    IN [e EXCEPT !.list = SubSeq(e.list, 1, Len(e.list) - take_count),
                 !.accumulator = @ \o drained,
                 !.pushed = @ \o drained]

\* list.drain(list.len() - take_count..) pushed to the accumulator.
take_keys(e) ==
    LET available_slots == MAX_KEYS_PER_DELETE - Len(e.accumulator)
        take_count == Min(available_slots, Len(e.list))
        drained == SubSeq(e.list, Len(e.list) - take_count + 1, Len(e.list))
    IN [e EXCEPT !.list = SubSeq(e.list, 1, Len(e.list) - take_count),
                 !.accumulator = @ \o drained,
                 !.pushed = @ \o drained]

\* The head of the loop: the token is looked at.
background_loop ==
    /\ executor.bg = "loop"
    /\ executor' = IF executor.cancel
                   THEN background_stop(executor)
                   ELSE [executor EXCEPT !.bg = "recv"]
    /\ UNCHANGED <<attachment_vars, shard_map, unreliable, uninit, counter>>

\* rx.recv() returns within AUTOFLUSH_INTERVAL: a message, or None when the
\* channel is closed and empty.
background_recv ==
    /\ executor.bg = "recv"
    /\ executor.rx # <<>> \/ executor.closed
    /\ executor' =
         IF executor.rx = <<>>
         THEN background_stop(executor)
         ELSE LET msg == Head(executor.rx)
                  taken == [executor EXCEPT !.rx = Tail(@)]
              IN IF msg.type = "Delete"
                 THEN [taken EXCEPT !.bg = "delete", !.list = msg.list,
                                    !.received = @ \cup SeqRange(msg.list)]
                 ELSE flush_call([taken EXCEPT !.flush_op = Some(msg.flush_op)],
                                 "flush_msg")
    /\ UNCHANGED <<attachment_vars, shard_map, unreliable, uninit, counter>>

\* No message came within AUTOFLUSH_INTERVAL.
background_timeout ==
    /\ executor.bg = "recv"
    /\ executor.rx = <<>>
    /\ ~executor.closed
    /\ executor' = flush_call(executor, "flush_timeout")
    /\ UNCHANGED <<attachment_vars, shard_map, unreliable, uninit, counter>>

\* One round of the loop over a Delete message's list, up to the flush of a
\* full accumulator.
background_delete ==
    /\ executor.bg = "delete"
    /\ executor' =
         IF executor.list # <<>> \/ Len(executor.accumulator) = MAX_KEYS_PER_DELETE
         THEN IF Len(executor.accumulator) = MAX_KEYS_PER_DELETE
              THEN flush_call(executor, "flush_delete")
              ELSE take_keys(executor)
         ELSE [executor EXCEPT !.bg = "loop"]
    /\ UNCHANGED <<attachment_vars, shard_map, unreliable, uninit, counter>>

\* Faulty variant (C35): the FlushOp is fired whatever flush returned.
background_flush_returned_fires_always ==
    /\ executor.bg \in {"flush_msg", "flush_timeout", "flush_delete"}
    /\ executor.pc = "idle"
    /\ executor' =
         IF executor.bg = "flush_msg"
         THEN [executor EXCEPT !.bg = "loop", !.flush_op = None,
                               !.fired = @ \cup executor.flush_op]
         ELSE IF executor.result # "Ok"
         THEN background_stop(executor)
         ELSE IF executor.bg = "flush_delete"
         THEN IF Len(executor.accumulator) = 0
              THEN take_keys([executor EXCEPT !.bg = "delete"])
              ELSE [executor EXCEPT !.bg = "panicked"]
         ELSE [executor EXCEPT !.bg = "loop"]
    /\ UNCHANGED <<attachment_vars, shard_map, unreliable, uninit, counter>>

\* flush has returned to background: `?` ends background on an error;
\* otherwise the Delete round goes on behind its assertion, the FlushOp is
\* fired, or the loop continues.
background_flush_returned ==
    /\ executor.bg \in {"flush_msg", "flush_timeout", "flush_delete"}
    /\ executor.pc = "idle"
    /\ executor' =
         IF executor.result # "Ok"
         THEN background_stop(executor)
         ELSE IF executor.bg = "flush_delete"
         THEN IF Len(executor.accumulator) = 0
              THEN take_keys([executor EXCEPT !.bg = "delete"])
              ELSE [executor EXCEPT !.bg = "panicked"]
         ELSE IF executor.bg = "flush_msg"
         THEN [executor EXCEPT !.bg = "loop", !.flush_op = None,
                               !.fired = @ \cup executor.flush_op]
         ELSE [executor EXCEPT !.bg = "loop"]
    /\ UNCHANGED <<attachment_vars, shard_map, unreliable, uninit, counter>>

\* ---------------------------------------------------------------- initial state
InitAttachment ==
    /\ availability = [n \in Nodes |-> "Active"]
    /\ tenant = [created |-> FALSE, policy |-> "Double1", generation |-> 0,
                 intent |-> NoIntent, observed |-> EmptyObserved, sequence |-> 0,
                 last_result |-> "none"]
    /\ recs = [r \in RecIds |-> IdleReconciler]
    /\ ps = [n \in Nodes |-> detached_location_conf]
    /\ lsn = [n \in Nodes |-> NoTimelines]
    /\ compute = None
    /\ wire = [prev |-> None, last |-> None]
    /\ vhist = [last |-> None, refused |-> None]
    /\ hook = [prev |-> None, last |-> None]
    /\ http = [status |-> "none", node_id |-> None, config_req |-> None]

\* ShardIdentity::default and key 0.
InitShardMap == shard_map = ShardCall(1, DEFAULT_STRIPE_SIZE, u32(0, 0), u32(0, 0))

InitUnreliable == unreliable = UnreliableWrapper_new(1)

InitUninit ==
    uninit = [timelines |-> {}, timelines_creating |-> {},
              guards |-> [g \in GuardIds |-> NoGuard]]

InitExecutor == executor = ExecutorWorker_new

\* Sequence(0) before any call.
InitCounter == counter = SequenceCounter(0)

Init ==
    /\ InitAttachment
    /\ InitShardMap
    /\ InitUnreliable
    /\ InitUninit
    /\ InitExecutor
    /\ InitCounter

\* ---------------------------------------------------------------- scheduler
Eligible(avail) == {n \in Nodes : avail[n] = "Active"}

Score(n, intent) ==
    <<IF n \in intent.attached THEN 1 ELSE 0, IF n \in intent.secondary THEN 1 ELSE 0, n>>

ScoreLeq(a, b) ==
    \/ a[1] < b[1]
    \/ a[1] = b[1] /\ a[2] < b[2]
    \/ a[1] = b[1] /\ a[2] = b[2] /\ a[3] <= b[3]

LowestScore(S, intent) ==
    CHOOSE n \in S : \A m \in S : ScoreLeq(Score(n, intent), Score(m, intent))

RECURSIVE LowestK(_, _, _)
LowestK(S, k, intent) ==
    IF k = 0 \/ S = {} THEN {}
    ELSE LET n == LowestScore(S, intent)
         IN {n} \cup LowestK(S \ {n}, k - 1, intent)

schedule(intent, policy, avail) ==
    LET eligible == Eligible(avail)
        attached == IF IsSome(intent.attached) /\ Unwrap(intent.attached) \in eligible
                    THEN intent.attached
                    ELSE IF eligible = {} THEN None
                    ELSE Some(LowestScore(eligible, intent))
    IN [attached |-> attached,
        secondary |-> LowestK(eligible \ attached, SecondaryCount(policy), intent)]

\* ---------------------------------------------------------------- dispatch
FreeSlots == {r \in RecIds : recs[r].pc = "idle"}

\* The reconcile dispatch: snapshot the shard, cancel the running reconcilers,
\* spawn a new one in a free slot.
spawn_reconciler(t, avail) ==
    LET new == CHOOSE r \in FreeSlots : \A q \in FreeSlots : r <= q
    IN recs' = [r \in RecIds |->
                  IF r = new
                  THEN [IdleReconciler EXCEPT !.pc = "reconcile",
                                              !.sequence = t.sequence,
                                              !.generation = t.generation,
                                              !.intent = t.intent,
                                              !.observed = t.observed,
                                              !.pageservers = avail]
                  ELSE IF recs[r].pc # "idle"
                  THEN [recs[r] EXCEPT !.cancel = TRUE]
                  ELSE recs[r]]

mutate_and_reconcile(t, avail) ==
    /\ FreeSlots # {}
    /\ tenant' = [t EXCEPT !.sequence = Sequence_next(tenant.sequence),
                           !.last_result = "none"]
    /\ spawn_reconciler(tenant', avail)

tenant_create(policy) ==
    /\ ~tenant.created
    /\ mutate_and_reconcile(
         [tenant EXCEPT !.created = TRUE, !.policy = policy,
                        !.intent = schedule(NoIntent, policy, availability)],
         availability)
    /\ UNCHANGED <<availability, ps, lsn, compute, wire, vhist, hook, http, library_vars>>

\* Faulty variant (C19): the new attached node stays in the secondary set.
tenant_shard_migrate_keep_secondary(node_id) ==
    LET old == tenant.intent.attached
        demoted == IF old # Some(node_id) /\ tenant.policy # "Single" THEN old ELSE {}
    IN /\ tenant.created
       /\ mutate_and_reconcile(
            [tenant EXCEPT !.intent = [attached |-> Some(node_id),
                                       secondary |-> tenant.intent.secondary \cup demoted]],
            availability)
       /\ UNCHANGED <<availability, ps, lsn, compute, wire, vhist, hook, http, library_vars>>

tenant_shard_migrate(node_id) ==
    LET old == tenant.intent.attached
        demoted == IF old # Some(node_id) /\ tenant.policy # "Single" THEN old ELSE {}
    IN /\ tenant.created
       /\ mutate_and_reconcile(
            [tenant EXCEPT !.intent = [attached |-> Some(node_id),
                                       secondary |-> (tenant.intent.secondary \ {node_id})
                                                        \cup demoted]],
            availability)
       /\ UNCHANGED <<availability, ps, lsn, compute, wire, vhist, hook, http, library_vars>>

\* A node that goes Offline while the shard's intent refers to it: the shard
\* is scheduled again.
reschedules(node_id, avail) ==
    avail = "Offline" /\ tenant.created /\ node_id \in all_pageservers(tenant.intent)

node_configure(node_id, avail) ==
    /\ availability[node_id] # avail
    /\ availability' = [availability EXCEPT ![node_id] = avail]
    /\ IF reschedules(node_id, avail)
       THEN mutate_and_reconcile(
              [tenant EXCEPT !.intent = schedule(tenant.intent, tenant.policy, availability')],
              availability')
       ELSE UNCHANGED <<tenant, recs>>
    /\ UNCHANGED <<ps, lsn, compute, wire, vhist, hook, library_vars>>

NodeConfigureRequest(node_id, avail) == [node_id |-> node_id, availability |-> avail]

\* Faulty variant (C20): the path's node_id is not compared with the body's.
handle_node_configure_unchecked(node_id, config_req) ==
    /\ node_configure(config_req.node_id, config_req.availability)
    /\ http' = [status |-> "OK", node_id |-> Some(node_id), config_req |-> Some(config_req)]

\* PUT /node/:node_id/config with the body config_req.
handle_node_configure(node_id, config_req) ==
    IF node_id # config_req.node_id
    THEN /\ http' = [status |-> "BadRequest", node_id |-> Some(node_id),
                     config_req |-> Some(config_req)]
         /\ UNCHANGED <<availability, tenant, recs, ps, lsn, compute, wire, vhist, hook, library_vars>>
    ELSE /\ node_configure(config_req.node_id, config_req.availability)
         /\ http' = [status |-> "OK", node_id |-> Some(node_id),
                     config_req |-> Some(config_req)]

\* impl From<ReconcileError> for ApiError.
ApiError_from(value) == "Conflict"

\* What Service::tenant_create and Service::tenant_shard_migrate return to
\* their handler: the caller sees acceptance once the reconcile is dispatched.
service_result == "Ok"

json_response(result) ==
    [status |-> IF result = "Ok" THEN "OK" ELSE ApiError_from(result),
     node_id |-> None, config_req |-> None]

\* POST /tenant.
handle_tenant_create(policy) ==
    /\ tenant.created = FALSE
    /\ mutate_and_reconcile(
         [tenant EXCEPT !.created = TRUE, !.policy = policy,
                        !.intent = schedule(NoIntent, policy, availability)],
         availability)
    /\ http' = json_response(service_result)
    /\ UNCHANGED <<availability, ps, lsn, compute, wire, vhist, hook, library_vars>>

\* PUT /tenant/:tenant_shard_id/migrate.
handle_tenant_shard_migrate(node_id) ==
    LET old == tenant.intent.attached
        demoted == IF old # Some(node_id) /\ tenant.policy # "Single" THEN old ELSE {}
    IN /\ tenant.created
       /\ mutate_and_reconcile(
            [tenant EXCEPT !.intent = [attached |-> Some(node_id),
                                       secondary |-> (tenant.intent.secondary \ {node_id})
                                                        \cup demoted]],
            availability)
       /\ http' = json_response(service_result)
       /\ UNCHANGED <<availability, ps, lsn, compute, wire, vhist, hook, library_vars>>

\* Service::tenant_locate: the node the shard is attached to by intent.
tenant_locate == tenant.intent.attached

\* Service::attach_hook bumps the generation and sets intent.attached (the
\* node stops being a secondary: intent.attached is never in intent.secondary);
\* it is not one of the operations that trigger a reconcile.
attach_hook(node_id) ==
    /\ tenant.generation < MaxGeneration
    /\ tenant' = [tenant EXCEPT !.created = TRUE,
                                !.generation = Generation_next(tenant.generation),
                                !.intent = [attached |-> Some(node_id),
                                            secondary |-> @.secondary \ {node_id}]]

\* Faulty variant (C5): the answer is the generation read before the bump.
handle_attach_hook_old(node_id) ==
    /\ attach_hook(node_id)
    /\ hook' = [prev |-> hook.last, last |-> Some(tenant.generation)]
    /\ UNCHANGED <<availability, recs, ps, lsn, compute, wire, vhist, http, library_vars>>

\* The handler answers with what the service returned: the new generation.
\* hook keeps the last two answers.
handle_attach_hook(node_id) ==
    /\ attach_hook(node_id)
    /\ hook' = [prev |-> hook.last, last |-> Some(tenant'.generation)]
    /\ UNCHANGED <<availability, recs, ps, lsn, compute, wire, vhist, http, library_vars>>

validate(g) == tenant.created /\ g = tenant.generation

\* vhist.last is the call and its answer (current: the shard's generation at
\* the call); vhist.refused is one earlier call that was answered false, any of
\* them (stale: the generation asked about was below the current one).
validate_response(g, valid) ==
    /\ \/ vhist' = [last |-> Some([gen |-> g, valid |-> valid,
                                   current |-> tenant.generation]),
                    refused |-> vhist.refused]
       \/ /\ ~valid
          /\ vhist' = [last |-> Some([gen |-> g, valid |-> valid,
                                      current |-> tenant.generation]),
                       refused |-> Some([gen |-> g, stale |-> g < tenant.generation])]
    /\ UNCHANGED <<availability, tenant, recs, ps, lsn, compute, wire, hook, http, library_vars>>

\* Faulty variant (C4): generations below the current one are accepted too.
handle_validate_stale_ok(g) ==
    /\ tenant.created
    /\ validate_response(g, tenant.created /\ g <= tenant.generation)

handle_validate(g) ==
    /\ tenant.created
    /\ validate_response(g, validate(g))

\* ---------------------------------------------------------------- page servers
\* What can happen to one request to a page server:
\*   ok            applied, answered 2xx
\*   status        not applied, answered with a non-2xx status
\*   lost          not applied, no answer (transport failure)
\*   applied_lost  applied, no answer (transport failure or timeout)
Outcomes == {"ok", "status", "lost", "applied_lost"}
Applied(o) == o \in {"ok", "applied_lost"}
Response(o) == IF o = "ok" THEN "2xx" ELSE IF o = "status" THEN "non2xx" ELSE "transport_error"

ps_location_config(node_id, config, o) ==
    ps' = IF Applied(o) THEN [ps EXCEPT ![node_id] = config] ELSE ps

wire_send(config) ==
    wire' = IF IsSome(config.generation)
            THEN [prev |-> wire.last, last |-> config.generation]
            ELSE wire

\* A page server that serves the shard ingests WAL: a timeline appears, or its
\* last_record_lsn advances.
ps_advance(node_id, t) ==
    /\ ps[node_id].mode \in {"AttachedSingle", "AttachedMulti"}
    /\ lsn[node_id][t] < MaxLsn
    /\ lsn' = [lsn EXCEPT ![node_id][t] = @ + 1]
    /\ UNCHANGED <<availability, tenant, recs, ps, compute, wire, vhist, hook, http, library_vars>>

\* ---------------------------------------------------------------- reconciler
\* Reconciler.log: what the run has done so far that is visible outside it, in
\* order; status is "sent" while a request is in flight, then how it ended.
PutEvent(node_id, config, status) ==
    [op |-> "put", node |-> node_id, mode |-> config.mode,
     generation |-> config.generation, status |-> status]
OtherEvent(op, node_id, status) ==
    [op |-> op, node |-> node_id, mode |-> "", generation |-> None, status |-> status]
Status(ok) == IF ok THEN "2xx" ELSE "transport_error"

Fail(rec) == [rec EXCEPT !.pc = "done", !.result = "Err"]

\* The task of a reconciler whose code panicked: it returns no result.
Panic(rec) == [rec EXCEPT !.pc = "panicked"]

\* self.pageservers.get(&node_id).expect(..): the node is not in the snapshot
\* of the node registry.
registry_lookup_panics(rec, node_id) == rec.pageservers[node_id] = "Absent"

\* Faulty variant (C6): the observed entry is left as it was while the request
\* is sent.
location_config_send_keep(rec, node_id, config) ==
    [rec EXCEPT !.inflight = Some([node |-> node_id, config |-> config]),
                !.log = Append(@, PutEvent(node_id, config, "sent"))]

\* Reconciler::location_config up to the moment the request is on the wire.
location_config_send(rec, node_id, config) ==
    [rec EXCEPT !.observed[node_id] = Uncertain,
                !.inflight = Some([node |-> node_id, config |-> config]),
                !.log = Append(@, PutEvent(node_id, config, "sent"))]

\* Reconciler::location_config from the end of the request on.
location_config_recv(rec, o) ==
    LET req == Unwrap(rec.inflight)
        answered == [rec EXCEPT !.inflight = None,
                                !.log[Len(rec.log)].status = Response(o)]
    IN IF Response(o) = "transport_error"
       THEN answered
       ELSE [answered EXCEPT !.observed[req.node] = Known(req.config)]

location_config_result(o) == IF Response(o) = "2xx" THEN "Ok" ELSE "Err"

\* Faulty variant (C11): the destination's observed state is not looked at.
live_migrate_destination_unchecked(rec) == rec.intent.attached

live_migrate_destination(rec) ==
    IF IsSome(rec.intent.attached)
    THEN LET node_id == Unwrap(rec.intent.attached)
             loc == rec.observed[node_id]
         IN IF loc.present
            THEN IF IsSome(loc.conf) /\ Unwrap(loc.conf).mode = "Secondary"
                 THEN Some(node_id)
                 ELSE None
            ELSE Some(node_id)
    ELSE None

\* Faulty variant (C17): an Offline node is taken as origin too.
live_migrate_origins_any_availability(rec) ==
    {node_id \in ObservedKeys(rec.observed) :
        /\ IsSome(rec.observed[node_id].conf)
        /\ Unwrap(rec.observed[node_id].conf).mode = "AttachedSingle"}

live_migrate_origin_candidates(rec) ==
    {node_id \in ObservedKeys(rec.observed) :
        /\ IsSome(rec.observed[node_id].conf)
        /\ Unwrap(rec.observed[node_id].conf).mode = "AttachedSingle"}

live_migrate_origins(rec) ==
    {node_id \in live_migrate_origin_candidates(rec) :
        /\ ~registry_lookup_panics(rec, node_id)
        /\ rec.pageservers[node_id] # "Offline"}

maybe_live_migrate(r) ==
    LET rec == recs[r]
        destination == live_migrate_destination(rec)
        origins == live_migrate_origins(rec)
    IN /\ rec.pc = "reconcile"
       /\ IF IsSome(destination)
          THEN \* the scan of the observed map, in the map's order, ends at the
               \* first candidate that is not Offline: with a panic if the
               \* registry snapshot does not hold it.
               \/ \E origin \in origins :
                    recs' = [recs EXCEPT ![r] = [rec EXCEPT !.pc = "lm_stale",
                                                           !.origin = Some(origin),
                                                           !.destination = destination]]
               \/ /\ \E node_id \in live_migrate_origin_candidates(rec) :
                        registry_lookup_panics(rec, node_id)
                  /\ recs' = [recs EXCEPT ![r] = Panic(rec)]
               \/ /\ origins = {}
                  /\ \A node_id \in live_migrate_origin_candidates(rec) :
                        ~registry_lookup_panics(rec, node_id)
                  /\ recs' = [recs EXCEPT ![r] = [rec EXCEPT !.pc = "attach"]]
          ELSE recs' = [recs EXCEPT ![r] = [rec EXCEPT !.pc = "attach"]]
       /\ UNCHANGED <<availability, tenant, ps, lsn, compute, wire, vhist, hook, http, library_vars>>

\* PageServerNode::location_config as live_migrate calls it: the request and
\* its result, with no change of the reconciler's observed state.
live_migrate_put(r, node_id, config, o, okpc, observe) ==
    LET rec == [recs[r] EXCEPT !.log = Append(@, PutEvent(node_id, config, Response(o)))]
    IN /\ ps_location_config(node_id, config, o)
       /\ wire_send(config)
       /\ recs' = [recs EXCEPT ![r] =
                     IF Response(o) = "2xx"
                     THEN [rec EXCEPT !.pc = okpc,
                                      !.observed[node_id] =
                                          IF observe THEN Known(config) ELSE @]
                     ELSE Fail(rec)]
       /\ UNCHANGED <<availability, tenant, lsn, compute, vhist, hook, http, library_vars>>

live_migrate_stale(r) ==
    /\ recs[r].pc = "lm_stale"
    /\ \E o \in Outcomes :
         live_migrate_put(r, Unwrap(recs[r].origin),
             build_location_config("AttachedStale", Some(recs[r].generation), None),
             o, "lm_get_lsns", FALSE)

get_lsns(node_id) == lsn[node_id]

live_migrate_baseline(r) ==
    LET rec == recs[r]
    IN /\ rec.pc = "lm_get_lsns"
       /\ \E ok \in BOOLEAN :
            recs' = [recs EXCEPT ![r] =
                       IF ok
                       THEN [rec EXCEPT !.pc = "lm_attach_multi",
                                        !.baseline = Some(get_lsns(Unwrap(rec.origin))),
                                        !.log = Append(@, OtherEvent("get_lsns",
                                                      Unwrap(rec.origin), Status(ok)))]
                       ELSE Fail([rec EXCEPT !.log = Append(@, OtherEvent("get_lsns",
                                                      Unwrap(rec.origin), Status(ok)))])]
       /\ UNCHANGED <<availability, tenant, ps, lsn, compute, wire, vhist, hook, http, library_vars>>

live_migrate_attach_multi(r) ==
    /\ recs[r].pc = "lm_attach_multi"
    /\ recs[r].generation < MaxGeneration
    /\ \E o \in Outcomes :
         LET generation == Generation_next(recs[r].generation)
             config == build_location_config("AttachedMulti", Some(generation), None)
             rec == [recs[r] EXCEPT !.generation = generation,
                                    !.log = Append(@, PutEvent(Unwrap(recs[r].destination),
                                                               config, Response(o)))]
         IN /\ ps_location_config(Unwrap(rec.destination), config, o)
            /\ wire_send(config)
            /\ recs' = [recs EXCEPT ![r] =
                          IF Response(o) = "2xx"
                          THEN [rec EXCEPT !.pc = "lm_await_lsn"]
                          ELSE Fail(rec)]
            /\ UNCHANGED <<availability, tenant, lsn, compute, vhist, hook, http, library_vars>>

\* Faulty variant (C10): a timeline the destination does not have yet is not
\* counted as behind.
any_behind_ignore_missing(baseline, latest) ==
    \E t \in Timelines :
        /\ baseline[t] >= 0
        /\ latest[t] >= 0
        /\ latest[t] < baseline[t]

\* One round of await_lsn's loop: latest is what get_lsns returned.
any_behind(baseline, latest) ==
    \E t \in Timelines :
        /\ baseline[t] >= 0
        /\ \/ latest[t] < 0
           \/ latest[t] < baseline[t]

await_lsn(r) ==
    LET rec == recs[r]
        destination == Unwrap(rec.destination)
    IN /\ rec.pc = "lm_await_lsn"
       /\ \E ok \in BOOLEAN :
            IF ok /\ ~any_behind(Unwrap(rec.baseline), get_lsns(destination))
            THEN recs' = [recs EXCEPT ![r] = [rec EXCEPT !.pc = "lm_notify",
                                  !.log = Append(@, OtherEvent("lsn_caught_up", destination,
                                                               Status(TRUE)))]]
            ELSE UNCHANGED recs
       /\ UNCHANGED <<availability, tenant, ps, lsn, compute, wire, vhist, hook, http, library_vars>>

\* Faulty variant (C38): a failed notification is logged and passed over.
live_migrate_notify_not_fatal(r) ==
    LET rec == recs[r]
        destination == Unwrap(rec.destination)
    IN /\ rec.pc = "lm_notify"
       /\ \E ok \in BOOLEAN :
            /\ compute' = IF ok THEN Some(destination) ELSE compute
            /\ recs' = [recs EXCEPT ![r] = [rec EXCEPT !.pc = "lm_origin_secondary",
                         !.log = Append(@, OtherEvent("notify", destination, Status(ok)))]]
       /\ UNCHANGED <<availability, tenant, ps, lsn, wire, vhist, hook, http, library_vars>>

live_migrate_notify(r) ==
    LET rec == recs[r]
        destination == Unwrap(rec.destination)
    IN /\ rec.pc = "lm_notify"
       /\ \E ok \in BOOLEAN :
            IF ok
            THEN /\ compute' = Some(destination)
                 /\ recs' = [recs EXCEPT ![r] = [rec EXCEPT !.pc = "lm_origin_secondary",
                              !.log = Append(@, OtherEvent("notify", destination, Status(ok)))]]
            ELSE /\ UNCHANGED compute
                 /\ recs' = [recs EXCEPT ![r] = Fail([rec EXCEPT
                              !.log = Append(@, OtherEvent("notify", destination, Status(ok)))])]
       /\ UNCHANGED <<availability, tenant, ps, lsn, wire, vhist, hook, http, library_vars>>

live_migrate_origin_secondary(r) ==
    /\ recs[r].pc = "lm_origin_secondary"
    /\ \E o \in Outcomes :
         live_migrate_put(r, Unwrap(recs[r].origin),
             build_location_config("Secondary", None, Some([warm |-> TRUE])),
             o, "lm_dest_single", TRUE)

\* Faulty variant (C3): the final promotion carries the generation from before
\* the bump.
live_migrate_dest_single_old_generation(r) ==
    /\ recs[r].pc = "lm_dest_single"
    /\ \E o \in Outcomes :
         live_migrate_put(r, Unwrap(recs[r].destination),
             build_location_config("AttachedSingle", Some(recs[r].generation - 1), None),
             o, "attach", TRUE)

\* Faulty variant (C29): the destination's final configuration is not taken
\* into the observed state.
live_migrate_dest_single_unobserved(r) ==
    /\ recs[r].pc = "lm_dest_single"
    /\ \E o \in Outcomes :
         live_migrate_put(r, Unwrap(recs[r].destination),
             build_location_config("AttachedSingle", Some(recs[r].generation), None),
             o, "attach", FALSE)

live_migrate_dest_single(r) ==
    /\ recs[r].pc = "lm_dest_single"
    /\ \E o \in Outcomes :
         live_migrate_put(r, Unwrap(recs[r].destination),
             build_location_config("AttachedSingle", Some(recs[r].generation), None),
             o, "attach", TRUE)

\* ---- general-case reconciliation
reconcile_attach(r) ==
    LET rec == recs[r]
    IN /\ rec.pc = "attach"
       /\ IF IsSome(rec.intent.attached)
          THEN LET node_id == Unwrap(rec.intent.attached)
                   wanted_conf == attached_location_conf(rec.generation)
               IN IF rec.observed[node_id].present
                     /\ rec.observed[node_id].conf = Some(wanted_conf)
                  THEN /\ recs' = [recs EXCEPT ![r] = [rec EXCEPT !.pc = "plan"]]
                       /\ UNCHANGED wire
                  ELSE LET generation == Generation_next(rec.generation)
                           config == [wanted_conf EXCEPT !.generation = Some(generation)]
                       IN /\ rec.generation < MaxGeneration
                          /\ IF registry_lookup_panics(rec, node_id)
                             THEN /\ recs' = [recs EXCEPT ![r] =
                                               Panic([rec EXCEPT !.generation = generation])]
                                  /\ UNCHANGED wire
                             ELSE /\ recs' = [recs EXCEPT ![r] =
                                               [location_config_send(
                                                   [rec EXCEPT !.generation = generation],
                                                   node_id, config)
                                                EXCEPT !.pc = "attach_inflight"]]
                                  /\ wire_send(config)
          ELSE /\ recs' = [recs EXCEPT ![r] = [rec EXCEPT !.pc = "plan"]]
               /\ UNCHANGED wire
       /\ UNCHANGED <<availability, tenant, ps, lsn, compute, vhist, hook, http, library_vars>>

\* Faulty variant (C22): a failed notification fails the reconcile.
reconcile_attach_done_notify_fatal(r) ==
    LET rec == recs[r]
        req == Unwrap(rec.inflight)
    IN /\ rec.pc = "attach_inflight"
       /\ \E o \in Outcomes, notified \in BOOLEAN :
            LET after == location_config_recv(rec, o)
                told == [after EXCEPT !.log = Append(@, OtherEvent("notify", req.node,
                                                                   Status(notified)))]
            IN /\ ps_location_config(req.node, req.config, o)
               /\ IF location_config_result(o) = "Ok"
                  THEN /\ recs' = [recs EXCEPT ![r] =
                                     IF notified THEN [told EXCEPT !.pc = "plan"]
                                                 ELSE Fail(told)]
                       /\ compute' = IF notified THEN Some(req.node) ELSE compute
                  ELSE /\ recs' = [recs EXCEPT ![r] = Fail(after)]
                       /\ UNCHANGED compute
       /\ UNCHANGED <<availability, tenant, lsn, wire, vhist, hook, http, library_vars>>

reconcile_attach_done(r) ==
    LET rec == recs[r]
        req == Unwrap(rec.inflight)
    IN /\ rec.pc = "attach_inflight"
       /\ \E o \in Outcomes, notified \in BOOLEAN :
            LET after == location_config_recv(rec, o)
            IN /\ ps_location_config(req.node, req.config, o)
               /\ IF location_config_result(o) = "Ok"
                  THEN /\ recs' = [recs EXCEPT ![r] =
                                     [after EXCEPT !.pc = "plan",
                                                   !.log = Append(@, OtherEvent("notify", req.node,
                                                                                Status(notified)))]]
                       /\ compute' = IF notified THEN Some(req.node) ELSE compute
                  ELSE /\ recs' = [recs EXCEPT ![r] = Fail(after)]
                       /\ UNCHANGED compute
       /\ UNCHANGED <<availability, tenant, lsn, wire, vhist, hook, http, library_vars>>

\* Faulty variant (C36): the observed state of the secondaries is not looked at.
secondary_changes_unconditional(rec) == rec.intent.secondary

secondary_changes(rec) ==
    {node_id \in rec.intent.secondary :
        ~(rec.observed[node_id].present
          /\ rec.observed[node_id].conf = Some(secondary_location_conf))}

detach_changes(rec) ==
    {node_id \in ObservedKeys(rec.observed) : node_id \notin all_pageservers(rec.intent)}

reconcile_plan(r) ==
    LET rec == recs[r]
    IN /\ rec.pc = "plan"
       /\ \E secs \in SetToSeqs(secondary_changes(rec)),
             dets \in SetToSeqs(detach_changes(rec)) :
            recs' = [recs EXCEPT ![r] =
                       [rec EXCEPT !.pc = "changes",
                                   !.changes =
                                      [i \in 1..Len(secs) |->
                                          [node |-> secs[i], config |-> secondary_location_conf]]
                                      \o [i \in 1..Len(dets) |->
                                          [node |-> dets[i], config |-> detached_location_conf]]]]
       /\ UNCHANGED <<availability, tenant, ps, lsn, compute, wire, vhist, hook, http, library_vars>>

reconcile_change(r) ==
    LET rec == recs[r]
    IN /\ rec.pc = "changes"
       /\ IF rec.changes = <<>>
          THEN recs' = [recs EXCEPT ![r] = [rec EXCEPT !.pc = "done", !.result = "Ok"]]
          ELSE IF registry_lookup_panics(rec, Head(rec.changes).node)
          THEN recs' = [recs EXCEPT ![r] = Panic(rec)]
          ELSE recs' = [recs EXCEPT ![r] =
                          [location_config_send(rec, Head(rec.changes).node,
                                                Head(rec.changes).config)
                           EXCEPT !.pc = "change_inflight", !.changes = Tail(rec.changes)]]
       /\ UNCHANGED <<availability, tenant, ps, lsn, compute, wire, vhist, hook, http, library_vars>>

reconcile_change_done(r) ==
    LET rec == recs[r]
        req == Unwrap(rec.inflight)
    IN /\ rec.pc = "change_inflight"
       /\ \E o \in Outcomes :
            LET after == location_config_recv(rec, o)
            IN /\ ps_location_config(req.node, req.config, o)
               /\ recs' = [recs EXCEPT ![r] =
                             IF location_config_result(o) = "Ok"
                             THEN [after EXCEPT !.pc = "changes"]
                             ELSE Fail(after)]
       /\ UNCHANGED <<availability, tenant, lsn, compute, wire, vhist, hook, http, library_vars>>

\* Faulty variant (C13): the result is taken whatever sequence it ran against.
process_result_any_sequence(r) ==
    LET rec == recs[r]
    IN /\ rec.pc = "done"
       /\ tenant' = [tenant EXCEPT
                       !.generation = Max(tenant.generation, rec.generation),
                       !.observed = rec.observed,
                       !.last_result = rec.result]
       /\ recs' = [recs EXCEPT ![r] = IdleReconciler]
       /\ UNCHANGED <<availability, ps, lsn, compute, wire, vhist, hook, http, library_vars>>

\* Faulty variant (C21): the triggering request is answered only when its
\* reconcile ends, with the reconcile's result.
process_result_answers_caller(r) ==
    LET rec == recs[r]
    IN /\ rec.pc = "done"
       /\ tenant' = [tenant EXCEPT
                       !.generation = Max(tenant.generation, rec.generation),
                       !.observed = IF tenant.sequence > rec.sequence
                                    THEN tenant.observed
                                    ELSE rec.observed,
                       !.last_result = IF tenant.sequence > rec.sequence
                                       THEN tenant.last_result
                                       ELSE rec.result]
       /\ recs' = [recs EXCEPT ![r] = IdleReconciler]
       /\ http' = json_response(rec.result)
       /\ UNCHANGED <<availability, ps, lsn, compute, wire, vhist, hook, library_vars>>

\* The reconcile task ends: the service takes its result.  The generation it
\* reached is kept; its observed state is taken unless a newer intent
\* superseded it.
process_result(r) ==
    LET rec == recs[r]
    IN /\ rec.pc = "done"
       /\ tenant' = [tenant EXCEPT
                       !.generation = Max(tenant.generation, rec.generation),
                       !.observed = IF tenant.sequence > rec.sequence
                                    THEN tenant.observed
                                    ELSE rec.observed,
                       !.last_result = IF tenant.sequence > rec.sequence
                                       THEN tenant.last_result
                                       ELSE rec.result]
       /\ recs' = [recs EXCEPT ![r] = IdleReconciler]
       /\ UNCHANGED <<availability, ps, lsn, compute, wire, vhist, hook, http, library_vars>>

\* ---------------------------------------------------------------- specification
\* The shard's intent is changed at most bound times.
SequenceBelow(bound) == tenant.sequence < bound

Next ==
    \/ \E policy \in Policies : SequenceBelow(MaxSequence) /\ tenant_create(policy)
    \/ \E n \in Nodes : SequenceBelow(MaxSequence) /\ tenant_shard_migrate(n)
    \/ \E n \in Nodes, a \in {"Active", "Offline"} :
          /\ reschedules(n, a) => SequenceBelow(MaxSequence)
          /\ node_configure(n, a)
          /\ UNCHANGED http
    \/ \E n \in Nodes, t \in Timelines : ps_advance(n, t)
    \/ \E r \in RecIds : maybe_live_migrate(r)
    \/ \E r \in RecIds : live_migrate_stale(r)
    \/ \E r \in RecIds : live_migrate_baseline(r)
    \/ \E r \in RecIds : live_migrate_attach_multi(r)
    \/ \E r \in RecIds : await_lsn(r)
    \/ \E r \in RecIds : live_migrate_notify(r)
    \/ \E r \in RecIds : live_migrate_origin_secondary(r)
    \/ \E r \in RecIds : live_migrate_dest_single(r)
    \/ \E r \in RecIds : reconcile_attach(r)
    \/ \E r \in RecIds : reconcile_attach_done(r)
    \/ \E r \in RecIds : reconcile_plan(r)
    \/ \E r \in RecIds : reconcile_change(r)
    \/ \E r \in RecIds : reconcile_change_done(r)
    \/ \E r \in RecIds : process_result(r)

Spec == Init /\ [][Next]_vars

\* The generation interface used by the test harness and by the page servers:
\* attach_hook and validate, next to a shard's creation and its reconcile.  No
\* reconciler of this specification finds an origin to migrate from, so the
\* live-migration steps are left out of it.
NextGen ==
    \/ \E policy \in Policies : SequenceBelow(MaxSequence) /\ tenant_create(policy)
    \/ \E n \in Nodes : handle_attach_hook(n)
    \/ \E g \in 0..MaxGeneration : handle_validate(g)
    \/ \E r \in RecIds : maybe_live_migrate(r)
    \/ \E r \in RecIds : reconcile_attach(r)
    \/ \E r \in RecIds : reconcile_attach_done(r)
    \/ \E r \in RecIds : reconcile_plan(r)
    \/ \E r \in RecIds : reconcile_change(r)
    \/ \E r \in RecIds : reconcile_change_done(r)
    \/ \E r \in RecIds : process_result(r)

SpecGen == Init /\ [][NextGen]_vars

\* The node-configure endpoint in front of the service: requests with any path
\* and any body reach the handler, next to a shard's creation and its
\* reconcile.  No reconciler of this specification finds an origin to migrate
\* from, so the live-migration steps are left out of it.
NextHttp ==
    \/ \E policy \in Policies : SequenceBelow(MaxSequence) /\ tenant_create(policy)
    \/ \E node_id \in Nodes, n \in Nodes, a \in {"Active", "Offline"} :
          /\ (node_id = n /\ reschedules(n, a)) => SequenceBelow(MaxSequence)
          /\ handle_node_configure(node_id, NodeConfigureRequest(n, a))
    \/ \E r \in RecIds : maybe_live_migrate(r)
    \/ \E r \in RecIds : reconcile_attach(r)
    \/ \E r \in RecIds : reconcile_attach_done(r)
    \/ \E r \in RecIds : reconcile_plan(r)
    \/ \E r \in RecIds : reconcile_change(r)
    \/ \E r \in RecIds : reconcile_change_done(r)
    \/ \E r \in RecIds : process_result(r)

SpecHttp == Init /\ [][NextHttp]_vars

\* The three requests that change a shard's intent, each through its handler,
\* and the reconciles they trigger on page servers that ingest no WAL.
NextRpc ==
    \/ \E policy \in Policies : SequenceBelow(MaxSequence) /\ handle_tenant_create(policy)
    \/ \E n \in Nodes : SequenceBelow(MaxSequence) /\ handle_tenant_shard_migrate(n)
    \/ \E n \in Nodes, a \in {"Active", "Offline"} :
          /\ reschedules(n, a) => SequenceBelow(MaxSequence)
          /\ handle_node_configure(n, NodeConfigureRequest(n, a))
    \/ \E r \in RecIds : maybe_live_migrate(r)
    \/ \E r \in RecIds : live_migrate_stale(r)
    \/ \E r \in RecIds : live_migrate_baseline(r)
    \/ \E r \in RecIds : live_migrate_attach_multi(r)
    \/ \E r \in RecIds : await_lsn(r)
    \/ \E r \in RecIds : live_migrate_notify(r)
    \/ \E r \in RecIds : live_migrate_origin_secondary(r)
    \/ \E r \in RecIds : live_migrate_dest_single(r)
    \/ \E r \in RecIds : reconcile_attach(r)
    \/ \E r \in RecIds : reconcile_attach_done(r)
    \/ \E r \in RecIds : reconcile_plan(r)
    \/ \E r \in RecIds : reconcile_change(r)
    \/ \E r \in RecIds : reconcile_change_done(r)
    \/ \E r \in RecIds : process_result(r)

SpecRpc == Init /\ [][NextRpc]_vars

\* One call of the key-to-shard mapping on each input.
InitShard ==
    /\ InitAttachment
    /\ \E count \in ShardCounts, stripe_size \in StripeSizes,
          hash \in Hashes, blkno \in Blknos :
          shard_map = ShardCall(count, stripe_size, hash, blkno)
    /\ InitUnreliable
    /\ InitUninit
    /\ InitExecutor
    /\ InitCounter

NextShard == get_shard_number

SpecShard == InitShard /\ [][NextShard]_vars

\* An UnreliableWrapper and the calls made through it.
InitRemote ==
    /\ InitAttachment
    /\ InitShardMap
    /\ \E attempts_to_fail \in 1 .. MaxAttemptsToFail :
          unreliable = UnreliableWrapper_new(attempts_to_fail)
    /\ InitUninit
    /\ InitExecutor
    /\ InitCounter

NextRemote ==
    \/ \E op \in RemoteOps : remote_call(op)
    \/ remote_delete_objects

SpecRemote == InitRemote /\ [][NextRemote]_vars

\* A caller that retries one delete_objects call, for each attempts_to_fail
\* and each list of paths; the caller is never starved.
PathLists ==
    UNION {[1 .. n -> DeletePaths] : n \in 1 .. MaxPathListLen}

InitRetry ==
    /\ InitAttachment
    /\ InitShardMap
    /\ \E attempts_to_fail \in 1 .. MaxAttemptsToFail, paths \in PathLists :
          unreliable = [UnreliableWrapper_new(attempts_to_fail) EXCEPT !.paths = paths]
    /\ InitUninit
    /\ InitExecutor
    /\ InitCounter

NextRetry == delete_objects_retry

SpecRetry == InitRetry /\ [][NextRetry]_vars /\ WF_vars(delete_objects_retry)

\* Threads that create timelines of one tenant.
NextUninit ==
    \/ \E g \in GuardIds, timeline_id \in Timelines, raw_timeline \in RawTimelines :
          UninitializedTimeline_new(g, timeline_id, raw_timeline)
    \/ \E g \in GuardIds : finish_creation(g)
    \/ \E g \in GuardIds : drop(g)

SpecUninit == Init /\ [][NextUninit]_vars

\* The deletion queue's executor: paths arrive, flush runs, the token fires.
NextExecutor ==
    \/ \E path \in Keys : accumulate(path)
    \/ executor_cancel
    \/ flush_enter
    \/ flush_loop
    \/ \E ok \in BOOLEAN : remote_delete_done(ok)
    \/ flush_end

SpecExecutor == Init /\ [][NextExecutor]_vars

\* ExecutorWorker::background with its senders, the remote storage and the
\* cancellation token.
NextBackground ==
    \/ \E n \in 1 .. MaxDeleteKeys : send_delete(n)
    \/ send_flush
    \/ close_senders
    \/ executor_cancel
    \/ background_loop
    \/ background_recv
    \/ background_timeout
    \/ background_delete
    \/ background_flush_returned
    \/ flush_loop
    \/ \E ok \in BOOLEAN : remote_delete_done(ok)
    \/ flush_end

SpecBackground == Init /\ [][NextBackground]_vars

\* A live migration that is overtaken by the loss of its destination: the
\* shard is created under Double(1), migrated while nothing else runs, and the
\* destination of a running live migration goes Offline after the origin was
\* frozen and its LSNs were read.
FrozenAndRead(r) == recs[r].pc = "lm_attach_multi"

NextCancel ==
    \/ SequenceBelow(MaxSequenceCancel) /\ tenant_create("Double1")
    \/ \E n \in Nodes :
          /\ SequenceBelow(MaxSequenceCancel)
          /\ \A r \in RecIds : recs[r].pc = "idle"
          /\ tenant_shard_migrate(n)
    \/ \E r \in RecIds :
          /\ SequenceBelow(MaxSequenceCancel)
          /\ FrozenAndRead(r)
          /\ node_configure(Unwrap(recs[r].destination), "Offline")
          /\ UNCHANGED http
    \/ \E n \in Nodes, t \in Timelines : ps_advance(n, t)
    \/ \E r \in RecIds : maybe_live_migrate(r)
    \/ \E r \in RecIds : live_migrate_stale(r)
    \/ \E r \in RecIds : live_migrate_baseline(r)
    \/ \E r \in RecIds : live_migrate_attach_multi(r)
    \/ \E r \in RecIds : await_lsn(r)
    \/ \E r \in RecIds : live_migrate_notify(r)
    \/ \E r \in RecIds : live_migrate_origin_secondary(r)
    \/ \E r \in RecIds : live_migrate_dest_single(r)
    \/ \E r \in RecIds : reconcile_attach(r)
    \/ \E r \in RecIds : reconcile_attach_done(r)
    \/ \E r \in RecIds : reconcile_plan(r)
    \/ \E r \in RecIds : reconcile_change(r)
    \/ \E r \in RecIds : reconcile_change_done(r)
    \/ \E r \in RecIds : process_result(r)

SpecCancel == Init /\ [][NextCancel]_vars

\* Whatever the task of reconciler r does next; the runtime keeps polling a
\* spawned task, so a step that stays possible is taken.
ReconcilerStep(r) ==
    \/ maybe_live_migrate(r)
    \/ live_migrate_stale(r)
    \/ live_migrate_baseline(r)
    \/ live_migrate_attach_multi(r)
    \/ await_lsn(r)
    \/ live_migrate_notify(r)
    \/ live_migrate_origin_secondary(r)
    \/ live_migrate_dest_single(r)
    \/ reconcile_attach(r)
    \/ reconcile_attach_done(r)
    \/ reconcile_plan(r)
    \/ reconcile_change(r)
    \/ reconcile_change_done(r)
    \/ process_result(r)

\* SpecCancel with reconciler tasks that are never starved.  Requests and
\* the page servers' WAL ingest may stop at any time.
SpecCancelFair ==
    Init /\ [][NextCancel]_vars /\ \A r \in RecIds : WF_vars(ReconcilerStep(r))

\* A Sequence that starts at any value, is stepped with next and is advanced
\* as a MonotonicCounter to any value.
SequenceValues == 0 .. MaxSequenceValue

InitSequence ==
    /\ InitAttachment
    /\ InitShardMap /\ InitUnreliable /\ InitUninit /\ InitExecutor
    /\ \E value \in SequenceValues : counter = SequenceCounter(value)

NextSequence ==
    \/ sequence_next
    \/ \E v \in SequenceValues : cnt_advance(v)

SpecSequence == InitSequence /\ [][NextSequence]_vars

\* One reconcile of each snapshot a Reconciler can be built from: the shard's
\* intent and observed state at generation 1, and the registry's nodes, any of
\* which may have left the registry ("Absent").  The page servers hold what the
\* snapshot knows of them.
SnapshotObserved ==
    {Absent, Uncertain, Known(attached_location_conf(1)),
     Known(secondary_location_conf), Known(detached_location_conf)}

SnapshotIntents ==
    {intent \in [attached : {None} \cup {Some(n) : n \in Nodes}, secondary : SUBSET Nodes] :
        /\ Cardinality(intent.secondary) <= 1
        /\ intent.attached \cap intent.secondary = {}}

InitSnapshot ==
    /\ \E intent \in SnapshotIntents,
          observed \in [Nodes -> SnapshotObserved],
          pageservers \in [Nodes -> {"Active", "Offline", "Absent"}] :
         /\ availability = pageservers
         /\ tenant = [created |-> TRUE,
                      policy |-> IF intent.secondary = {} THEN "Single" ELSE "Double1",
                      generation |-> 1, intent |-> intent, observed |-> observed,
                      sequence |-> 1, last_result |-> "none"]
         /\ recs = [r \in RecIds |->
                      IF r = 1
                      THEN [IdleReconciler EXCEPT !.pc = "reconcile",
                                                  !.sequence = 1,
                                                  !.generation = 1,
                                                  !.intent = intent,
                                                  !.observed = observed,
                                                  !.pageservers = pageservers]
                      ELSE IdleReconciler]
         /\ ps = [n \in Nodes |->
                    IF IsSome(observed[n].conf)
                    THEN Unwrap(observed[n].conf)
                    ELSE detached_location_conf]
    /\ lsn = [n \in Nodes |-> NoTimelines]
    /\ compute = None
    /\ wire = [prev |-> None, last |-> None]
    /\ vhist = [last |-> None, refused |-> None]
    /\ hook = [prev |-> None, last |-> None]
    /\ http = [status |-> "none", node_id |-> None, config_req |-> None]
    /\ InitShardMap /\ InitUnreliable /\ InitUninit /\ InitExecutor /\ InitCounter

NextSnapshot == \E r \in RecIds : ReconcilerStep(r)

SpecSnapshot == InitSnapshot /\ [][NextSnapshot]_vars

\* ---------------------------------------------------------------- claims
AttachedModes == {"AttachedSingle", "AttachedMulti", "AttachedStale"}
Last(q) == q[Len(q)]
Running(r) == recs[r].pc # "idle"
LiveMigrating(r) == Running(r) /\ IsSome(recs[r].origin)

\* C1: for the shard, at most one page server holds the mode AttachedSingle in
\* every reachable state.
C1_AtMostOneAttachedSingle ==
    \A a, b \in Nodes :
        (ps[a].mode = "AttachedSingle" /\ ps[b].mode = "AttachedSingle") => a = b

\* C2: every PUT that promotes a node to attached (AttachedSingle in the general
\* case, AttachedMulti on the destination of a live migration) is sent after the
\* generation was incremented, carries the incremented value, and that value is
\* strictly greater than the generation any page server holds in an attached mode.
PromotingPut(r) ==
    /\ recs[r].pc \in {"attach", "lm_attach_multi"}
    /\ Len(recs'[r].log) = Len(recs[r].log) + 1
    /\ Last(recs'[r].log).op = "put"

C2_PromoteAboveEveryHeldGeneration ==
    [][\A r \in RecIds :
         PromotingPut(r) =>
            LET e == Last(recs'[r].log)
            IN /\ e.generation = Some(recs[r].generation + 1)
               /\ recs'[r].generation = recs[r].generation + 1
               /\ \A n \in Nodes :
                    ps[n].mode \in AttachedModes =>
                        Unwrap(ps[n].generation) < Unwrap(e.generation)]_vars

C4_OnceFalseNeverTrue ==
    (IsSome(vhist.last) /\ IsSome(vhist.refused) /\ Unwrap(vhist.last).valid)
        => Unwrap(vhist.refused).gen # Unwrap(vhist.last).gen

\* C4 as amended: validate answers true exactly when g is the current
\* generation, and once it has answered false for a g below the current
\* generation it never answers true for that g again.
C4_StaleStaysRefused ==
    IsSome(vhist.last) =>
        LET call == Unwrap(vhist.last)
        IN /\ call.valid <=> (call.gen = call.current)
           /\ (call.valid /\ IsSome(vhist.refused) /\ Unwrap(vhist.refused).stale)
                 => Unwrap(vhist.refused).gen # call.gen

C4_Witness ==
    /\ IsSome(vhist.last) /\ Unwrap(vhist.last).valid
    /\ IsSome(vhist.refused) /\ Unwrap(vhist.refused).stale
    /\ Unwrap(vhist.refused).gen + 1 = Unwrap(vhist.last).gen
    /\ \E r \in RecIds : Running(r)

\* C5: each attach_hook call bumps the generation by one and returns the new
\* value, which is greater than the value the call before returned; right after
\* two calls that returned g1 then g2, validate(g1) is false and validate(g2) true.
C5_AttachHookReturnsBumped ==
    [][hook' # hook =>
         /\ tenant'.generation = Generation_next(tenant.generation)
         /\ hook'.last = Some(tenant'.generation)
         /\ \A g1, g2 \in 0..MaxGeneration :
               (hook'.prev = Some(g1) /\ hook'.last = Some(g2)) =>
                  /\ g1 < g2
                  /\ ~validate(g1)'
                  /\ validate(g2)']_vars

C5_Witness ==
    /\ IsSome(hook.prev)
    /\ tenant.generation = Unwrap(hook.last)
    /\ validate(Unwrap(hook.last))
    /\ ~validate(Unwrap(hook.prev))
    /\ \E r \in RecIds : recs[r].generation > 0

\* C6: while a request of Reconciler::location_config is in flight, the
\* reconciler's observed entry for the node is None (uncertain), never a
\* configuration.
C6_UncertainWhileInFlight ==
    \A r \in RecIds :
        IsSome(recs[r].inflight) =>
            recs[r].observed[Unwrap(recs[r].inflight).node] = Uncertain

C6_Witness ==
    \E r \in RecIds :
        /\ IsSome(recs[r].inflight)
        /\ IsSome(tenant.observed[Unwrap(recs[r].inflight).node].conf)

\* C7: when the PUT of Reconciler::location_config ends in anything but a 2xx,
\* the call returns the error and observed[node] is None afterwards;
\* observed[node] becomes Some(config) only when a 2xx was received.
C7_NoneUnlessSuccess ==
    [][\A r \in RecIds :
         (IsSome(recs[r].inflight) /\ recs'[r].inflight = None) =>
            LET req == Unwrap(recs[r].inflight)
                status == Last(recs'[r].log).status
            IN /\ status # "2xx" =>
                    /\ recs'[r].result = "Err"
                    /\ recs'[r].observed[req.node] = Uncertain
               /\ recs'[r].observed[req.node] = Known(req.config) => status = "2xx"]_vars

\* C8: once a live migration has sent a PUT to a node, the reconciler's observed
\* entry for that node is None or the configuration of the last PUT sent to it,
\* never what the node held before the migration.
LastPutTo(log, n) ==
    LET i == CHOOSE i \in DOMAIN log :
                /\ log[i].op = "put" /\ log[i].node = n
                /\ \A j \in DOMAIN log : (log[j].op = "put" /\ log[j].node = n) => j <= i
    IN log[i]

C8_ObservedFollowsMigrationPuts ==
    \A r \in RecIds : \A n \in Nodes :
        (LiveMigrating(r) /\ \E i \in DOMAIN recs[r].log :
                                recs[r].log[i].op = "put" /\ recs[r].log[i].node = n) =>
            \/ recs[r].observed[n] = Uncertain
            \/ /\ IsSome(recs[r].observed[n].conf)
               /\ Unwrap(recs[r].observed[n].conf).mode = LastPutTo(recs[r].log, n).mode
               /\ Unwrap(recs[r].observed[n].conf).generation
                     = LastPutTo(recs[r].log, n).generation

\* C3 as amended: within one reconciler run the generations carried by
\* successive location_config PUTs never decrease (a live migration carries
\* g, then g+1 twice).
PutGenerations(log) ==
    {i \in DOMAIN log : log[i].op = "put" /\ IsSome(log[i].generation)}

LiveMigrationSteps(g, src, dst) ==
    << [op |-> "put", node |-> src, mode |-> "AttachedStale", generation |-> Some(g)],
       [op |-> "get_lsns", node |-> src, mode |-> "", generation |-> None],
       [op |-> "put", node |-> dst, mode |-> "AttachedMulti", generation |-> Some(g + 1)],
       [op |-> "lsn_caught_up", node |-> dst, mode |-> "", generation |-> None],
       [op |-> "notify", node |-> dst, mode |-> "", generation |-> None],
       [op |-> "put", node |-> src, mode |-> "Secondary", generation |-> None],
       [op |-> "put", node |-> dst, mode |-> "AttachedSingle", generation |-> Some(g + 1)] >>

StepOf(e) == [op |-> e.op, node |-> e.node, mode |-> e.mode, generation |-> e.generation]

CaughtUp(r) ==
    \A t \in Timelines :
        Unwrap(recs[r].baseline)[t] >= 0 =>
            lsn[Unwrap(recs[r].destination)][t] >= Unwrap(recs[r].baseline)[t]

C10_NotifyAfterCatchUp ==
    [][\A r \in RecIds :
         /\ (recs[r].pc = "lm_await_lsn" /\ recs'[r].pc # "lm_await_lsn") =>
               /\ recs'[r].pc = "lm_notify"
               /\ CaughtUp(r)
         /\ (recs[r].pc # "lm_notify" /\ recs'[r].pc = "lm_notify") =>
               recs[r].pc = "lm_await_lsn"
         /\ (LiveMigrating(r) /\ recs[r].pc # "lm_notify"
               /\ Len(recs'[r].log) > Len(recs[r].log)) =>
               Last(recs'[r].log).op # "notify"]_vars

C10_Witness ==
    \E r \in RecIds :
        /\ LiveMigrating(r)
        /\ Len(recs[r].log) >= 5
        /\ recs[r].log[5].op = "notify"
        /\ \A t \in Timelines : Unwrap(recs[r].baseline)[t] >= 0
        /\ \E t \in Timelines : Unwrap(recs[r].baseline)[t] >= 1

\* C11: the reconciler enters the live-migration protocol exactly when
\* intent.attached = Some(dst), dst is observed as Secondary, and some other
\* node is observed as AttachedSingle and is not Offline in the snapshot; in
\* every other case it does no live-migration RPC and goes on to the general
\* case.
ObservedMode(rec, n, mode) ==
    /\ rec.observed[n].present
    /\ IsSome(rec.observed[n].conf)
    /\ Unwrap(rec.observed[n].conf).mode = mode

HasOrigin(rec, dst) ==
    \E src \in Nodes \ {dst} :
        ObservedMode(rec, src, "AttachedSingle") /\ rec.pageservers[src] # "Offline"

LiveMigrationPcs ==
    {"lm_stale", "lm_get_lsns", "lm_attach_multi", "lm_await_lsn", "lm_notify",
     "lm_origin_secondary", "lm_dest_single"}

\* What one step of reconciler r does when it decides about live migration.
DecidesLiveMigration(r, trigger) ==
    /\ (recs[r].pc = "reconcile" /\ recs'[r].pc # "reconcile") =>
          /\ recs'[r].pc = "lm_stale" <=> trigger
          /\ recs'[r].pc # "lm_stale" =>
                (recs'[r].pc = "attach" /\ recs'[r].log = recs[r].log)
          /\ UNCHANGED <<ps, wire, lsn, compute>>
    /\ (recs[r].pc \notin LiveMigrationPcs /\ recs'[r].pc \in LiveMigrationPcs) =>
          recs[r].pc = "reconcile"

C11_LiveMigrationOnlyFromSecondary ==
    [][\A r \in RecIds :
         DecidesLiveMigration(r,
            /\ IsSome(recs[r].intent.attached)
            /\ ObservedMode(recs[r], Unwrap(recs[r].intent.attached), "Secondary")
            /\ HasOrigin(recs[r], Unwrap(recs[r].intent.attached)))]_vars

\* C11 as amended: a destination with no observed entry at all is migrated to
\* as well.
C11_LiveMigrationFromSecondaryOrAbsent ==
    [][\A r \in RecIds :
         DecidesLiveMigration(r,
            /\ IsSome(recs[r].intent.attached)
            /\ \/ ObservedMode(recs[r], Unwrap(recs[r].intent.attached), "Secondary")
               \/ ~recs[r].observed[Unwrap(recs[r].intent.attached)].present
            /\ HasOrigin(recs[r], Unwrap(recs[r].intent.attached)))]_vars

C11_Witness ==
    \E r \in RecIds :
        /\ recs[r].pc = "lm_get_lsns"
        /\ ~recs[r].observed[Unwrap(recs[r].destination)].present
        /\ ps[Unwrap(recs[r].origin)].mode = "AttachedStale"

\* C12: once a reconciler's cancellation token has fired, it starts no further
\* page-server request and no compute notification: only a request already in
\* flight may complete, and then the reconciler returns.  (Every request and
\* notification a run starts adds an entry to its log.)
C12_NothingStartedAfterCancel ==
    [][\A r \in RecIds :
         recs[r].cancel => Len(recs'[r].log) <= Len(recs[r].log)]_vars

\* C13: a reconciler spawned against sequence s never changes the shard's
\* stored observed state when the shard's sequence is greater than s at the
\* time it finishes; the stored observed state changes only by taking the
\* result of a reconciler that is not superseded.
C13_SupersededResultDiscarded ==
    [][/\ \A r \in RecIds :
            (recs[r].pc = "done" /\ recs'[r].pc = "idle"
                 /\ tenant.sequence > recs[r].sequence) =>
               tenant'.observed = tenant.observed
       /\ tenant'.observed # tenant.observed =>
            \E r \in RecIds :
               /\ recs[r].pc = "done" /\ recs'[r].pc = "idle"
               /\ recs[r].sequence = tenant.sequence
               /\ tenant'.observed = recs[r].observed]_vars

\* The first reconciler has finished and left its generation, yet the stored
\* observed state is still empty: its result was discarded while its
\* replacement is running.
C13_Witness ==
    /\ tenant.sequence = 2
    /\ tenant.generation >= 1
    /\ tenant.observed = EmptyObserved
    /\ \E n \in Nodes : ps[n].mode = "AttachedSingle"
    /\ \E r \in RecIds : Running(r) /\ recs[r].sequence = 2
    /\ \E r \in RecIds : ~Running(r)

\* C14: in no interleaving of reconcilers and intent mutations on the shard is
\* one generation value sent in an attached-mode configuration (AttachedSingle
\* or AttachedMulti) to two different page servers.
PromotingModes == {"AttachedSingle", "AttachedMulti"}

PromotingPuts(r) ==
    {i \in DOMAIN recs[r].log :
        recs[r].log[i].op = "put" /\ recs[r].log[i].mode \in PromotingModes}

C14_OneGenerationOneNode ==
    \A r1, r2 \in RecIds :
        \A i \in PromotingPuts(r1), j \in PromotingPuts(r2) :
            recs[r1].log[i].generation = recs[r2].log[j].generation
                => recs[r1].log[i].node = recs[r2].log[j].node

\* C15: once no reconciler is in flight and the last reconcile of the shard
\* succeeded, the stored observed state is the one derived from intent and
\* generation: the intended attached node is observed as AttachedSingle at the
\* shard's generation, every intended secondary as Secondary(warm), every other
\* observed node as Detached.
Quiescent == \A r \in RecIds : ~Running(r)

DerivedObserved(t) ==
    \A n \in Nodes :
        IF n \in t.intent.attached
        THEN t.observed[n] = Known(attached_location_conf(t.generation))
        ELSE IF n \in t.intent.secondary
        THEN t.observed[n] = Known(secondary_location_conf)
        ELSE t.observed[n] \in {Absent, Known(detached_location_conf)}

C15_QuiescentObservedMatchesIntent ==
    (tenant.created /\ Quiescent /\ tenant.last_result = "Ok") => DerivedObserved(tenant)

\* C16: when the destination N2 of a live migration from N1 goes Offline after
\* N1 was frozen (AttachedStale, generation 1) and its LSNs were read, the
\* scheduler picks N1 again and the system settles with N1 holding
\* AttachedSingle at a generation of at least 3.
DestinationLost ==
    /\ availability[2] = "Offline"
    /\ availability[1] = "Active"
    /\ tenant.sequence = 3

C16_OriginReattachedAfterCancel ==
    (DestinationLost /\ Quiescent /\ tenant.last_result = "Ok") =>
        /\ tenant.intent.attached = Some(1)
        /\ ps[1].mode = "AttachedSingle"
        /\ Unwrap(ps[1].generation) >= 3

\* C17: in a registry of the two nodes N1 and N2, with the shard attached to
\* N1 and N2 secondary under Double(1), node_configure(N1, Offline) bumps the sequence and makes N2 the intended
\* attached node; the reconcile that follows takes the general-case path (no
\* live-migration step), raises the generation by exactly one, PUTs
\* AttachedSingle with the new generation to N2 and then notifies the compute
\* hook with N2.
AttachedWithSecondary(t, g) ==
    /\ Nodes = {1, 2}
    /\ t.intent = [attached |-> Some(1), secondary |-> {2}]
    /\ t.observed[1] = Known(attached_location_conf(g))
    /\ t.observed[2] = Known(secondary_location_conf)

\* Reconciler r was spawned by the failover and has not changed its observed
\* entry of N1 yet.
FailoverRun(r, g) ==
    /\ Nodes = {1, 2}
    /\ Running(r)
    /\ recs[r].pageservers = [n \in Nodes |-> IF n = 1 THEN "Offline" ELSE "Active"]
    /\ recs[r].intent.attached = Some(2)
    /\ recs[r].observed[1] = Known(attached_location_conf(g))

C17_OfflineFailoverTakesGeneralCase ==
    [][\A g \in 1..MaxGeneration :
         /\ (/\ tenant.policy = "Double1" /\ AttachedWithSecondary(tenant, g)
             /\ tenant.generation = g
             /\ availability[1] = "Active" /\ availability[2] = "Active"
             /\ availability'[1] = "Offline") =>
               /\ tenant'.sequence = tenant.sequence + 1
               /\ tenant'.intent.attached = Some(2)
               /\ \E r \in RecIds :
                     /\ recs'[r].pc = "reconcile" /\ FailoverRun(r, g)'
                     /\ recs'[r].sequence = tenant'.sequence
                     /\ recs'[r].generation = g
                     /\ recs'[r].observed[2] = Known(secondary_location_conf)
         /\ \A r \in RecIds :
              (FailoverRun(r, g) /\ recs[r].generation = g
                  /\ recs'[r].pc # recs[r].pc) =>
                 /\ recs[r].pc = "reconcile" =>
                       (recs'[r].pc = "attach" /\ recs'[r].log = <<>>)
                 /\ recs[r].pc = "attach" =>
                       /\ recs'[r].generation = g + 1
                       /\ recs'[r].log =
                             <<PutEvent(2, attached_location_conf(g + 1), "sent")>>
                       /\ wire'.last = Some(g + 1)
         /\ \A r \in RecIds :
              (FailoverRun(r, g) /\ recs[r].pc = "attach_inflight") =>
                 /\ recs[r].generation = g + 1
                 /\ recs[r].log = <<PutEvent(2, attached_location_conf(g + 1), "sent")>>
                 /\ (recs'[r].pc = "plan") =>
                       /\ ps'[2] = attached_location_conf(g + 1)
                       /\ Last(recs'[r].log).op = "notify"
                       /\ Last(recs'[r].log).node = 2
                       /\ compute' \in {compute, Some(2)}
                       /\ Last(recs'[r].log).status = "2xx" => compute' = Some(2)]_vars

C17_Witness ==
    \E r \in RecIds :
        /\ FailoverRun(r, 1)
        /\ recs[r].sequence = 2
        /\ recs[r].generation = 2
        /\ Len(recs[r].log) = 2
        /\ recs[r].log[1] = PutEvent(2, attached_location_conf(2), "2xx")
        /\ recs[r].log[2] = OtherEvent("notify", 2, "2xx")
        /\ compute = Some(2)
        /\ ps[2] = attached_location_conf(2)
        /\ tenant.policy = "Double1"
        /\ tenant.observed[1] = Known(attached_location_conf(1))
        /\ tenant.observed[2] = Known(secondary_location_conf)
        /\ \A q \in RecIds \ {r} : ~Running(q)

\* C18: in the general case, when the observed configuration of the intended
\* attached node is not the wanted AttachedSingle configuration (or is absent
\* or uncertain), the reconciler bumps the generation by exactly one and sends
\* exactly one AttachedSingle PUT to that node with the bumped generation; a
\* first attach under policy Single on N1 is a single PUT AttachedSingle
\* generation 1, and locate returns N1.
AttachedSingleAt(g) == LocationConfig("AttachedSingle", Some(g), None)

AttachedSinglePuts(log) ==
    {i \in DOMAIN log : log[i].op = "put" /\ log[i].mode = "AttachedSingle"}

AllPuts(log) == {i \in DOMAIN log : log[i].op = "put"}

NeedsAttach(rec) ==
    /\ IsSome(rec.intent.attached)
    /\ rec.observed[Unwrap(rec.intent.attached)]
          # Known(AttachedSingleAt(rec.generation))

FirstAttach(r) ==
    /\ Running(r)
    /\ recs[r].sequence = 1
    /\ tenant.policy = "Single"
    /\ recs[r].intent.attached = Some(1)

C18_AttachBumpsOnceAndPutsOnce ==
    [][\A r \in RecIds :
         /\ (recs[r].pc = "attach" /\ recs'[r].pc # "attach") =>
               IF NeedsAttach(recs[r])
               THEN LET n == Unwrap(recs[r].intent.attached)
                        config == AttachedSingleAt(recs[r].generation + 1)
                    IN /\ recs'[r].generation = recs[r].generation + 1
                       /\ recs'[r].log = Append(recs[r].log, PutEvent(n, config, "sent"))
                       /\ recs'[r].inflight = Some([node |-> n, config |-> config])
                       /\ wire'.last = Some(recs[r].generation + 1)
               ELSE /\ recs'[r].generation = recs[r].generation
                    /\ recs'[r].log = recs[r].log
         /\ Cardinality(AttachedSinglePuts(recs'[r].log)) <= 1
         /\ FirstAttach(r)' =>
               /\ \A i \in AllPuts(recs'[r].log) :
                     StepOf(recs'[r].log[i]) =
                        StepOf(PutEvent(1, AttachedSingleAt(1), "sent"))
               /\ recs'[r].result = "Ok" =>
                     /\ Cardinality(AllPuts(recs'[r].log)) = 1
                     /\ ps'[1] = AttachedSingleAt(1)
               /\ tenant'.sequence = 1 => tenant_locate' = Some(1)]_vars

C18_Witness ==
    \E r \in RecIds :
        /\ FirstAttach(r)
        /\ recs[r].result = "Ok"
        /\ recs[r].log = <<PutEvent(1, AttachedSingleAt(1), "2xx"),
                           OtherEvent("notify", 1, "2xx")>>
        /\ tenant_locate = Some(1)
        /\ ps[1] = AttachedSingleAt(1)
        /\ ps[2] = detached_location_conf

\* C19: in every reachable state the intended attached node is not a member of
\* the intended secondary set, in the shard's intent and in every reconciler's
\* snapshot of it: after tenant_create, after re-scheduling by node_configure,
\* and after tenant_shard_migrate to a node that was a secondary.
C19_AttachedNotInSecondary ==
    /\ tenant.intent.attached \cap tenant.intent.secondary = {}
    /\ \A r \in RecIds : recs[r].intent.attached \cap recs[r].intent.secondary = {}

\* The shard was migrated to its former secondary; the former attached node
\* was demoted.
C19_Witness ==
    /\ tenant.policy = "Double1"
    /\ tenant.sequence = 2
    /\ tenant.intent = [attached |-> Some(2), secondary |-> {1}]
    /\ availability = [n \in Nodes |-> "Active"]
    /\ \E r \in RecIds : recs[r].sequence = 2 /\ recs[r].intent = tenant.intent

\* C20: a node-configure request whose path node_id differs from the node_id
\* in its body is answered BadRequest before the service is called: the node
\* registry, the shard's intent, sequence and generation and the running
\* reconcilers are unchanged.  A request whose ids agree reaches the service.
C20_MismatchRejected ==
    [][\A node_id \in Nodes, n \in Nodes, a \in {"Active", "Offline"} :
         handle_node_configure(node_id, NodeConfigureRequest(n, a)) =>
            IF node_id # n
            THEN /\ http'.status = "BadRequest"
                 /\ UNCHANGED <<availability, tenant, recs, ps, lsn, compute>>
            ELSE /\ http'.status = "OK"
                 /\ availability'[n] = a]_vars

\* The rejected request named the attached node as going Offline: served, it
\* would have re-scheduled the shard and replaced the running reconciler.
C20_Witness ==
    /\ http.status = "BadRequest"
    /\ Unwrap(http.node_id) # Unwrap(http.config_req).node_id
    /\ Unwrap(http.config_req).availability = "Offline"
    /\ availability = [n \in Nodes |-> "Active"]
    /\ tenant.intent.attached = Some(Unwrap(http.config_req).node_id)
    /\ tenant.sequence = 1
    /\ \E r \in RecIds : Running(r) /\ ~recs[r].cancel

\* ---------------------------------------------------------------- C21
\* The run of reconciler r ended in an error on a location_config request that
\* met a transport fault: no answer, or an answer that is not 2xx.
TransportFault(r) ==
    /\ recs[r].pc = "done" /\ recs[r].result = "Err"
    /\ recs[r].log # <<>>
    /\ recs[r].log[Len(recs[r].log)].op = "put"
    /\ recs[r].log[Len(recs[r].log)].status \in {"transport_error", "non2xx"}

NotifiedAfterAttach(rec, n) ==
    LET k == Len(rec.log)
    IN /\ k >= 2
       /\ rec.log[k].op = "notify" /\ rec.log[k].node = n
       /\ rec.log[k - 1].op = "put" /\ rec.log[k - 1].node = n
       /\ rec.log[k - 1].mode = "AttachedSingle"
       /\ rec.log[k - 1].status = "2xx"

\* C22: in general-case reconciliation the compute hook is notified of node n
\* only after the AttachedSingle PUT to n succeeded (a PUT that failed ends
\* the run with no notification), and a notification that fails does not fail
\* the reconcile: the run goes on to its secondary and detach changes.
C22_NotifyAfterAttachAndNotFatal ==
    [][\A r \in RecIds :
         (recs[r].pc = "attach_inflight" /\ recs'[r].pc # "attach_inflight") =>
            LET n == Unwrap(recs[r].inflight).node
            IN \/ /\ recs'[r].pc = "plan"
                  /\ recs'[r].result = "none"
                  /\ Len(recs'[r].log) = Len(recs[r].log) + 1
                  /\ NotifiedAfterAttach(recs'[r], n)
                  /\ ps'[n].mode = "AttachedSingle"
                  /\ \/ compute' = Some(n)
                     \/ /\ compute' = compute
                        /\ recs'[r].log[Len(recs'[r].log)].status = "transport_error"
               \/ /\ recs'[r].pc = "done" /\ recs'[r].result = "Err"
                  /\ Len(recs'[r].log) = Len(recs[r].log)
                  /\ recs'[r].log[Len(recs[r].log)].status # "2xx"
                  /\ compute' = compute]_vars

\* A general-case run whose notification failed went on to send a further
\* location_config request and ended in success.
C22_Witness ==
    \E r \in RecIds :
        /\ recs[r].pc = "done" /\ recs[r].result = "Ok"
        /\ \E k \in 2..Len(recs[r].log) :
              /\ NotifiedAfterAttach([recs[r] EXCEPT !.log = SubSeq(@, 1, k)],
                                     recs[r].log[k].node)
              /\ recs[r].log[k].status = "transport_error"
              /\ k < Len(recs[r].log)

\* ---------------------------------------------------------------- C23
\* The remainder of the number a stands for, by m.
u32_rem(a, m) == (((a.hi % m) * (U16 % m)) + (a.lo % m)) % m

\* (h + b div s) mod c, for the numbers hash and blkno stand for.
StripeModCount(count, stripe_size, hash, blkno) ==
    (u32_rem(hash, count) + u32_rem(u32_div(blkno, stripe_size), count)) % count

\* C23: for every shard count c >= 1, stripe size s >= 1, 32-bit hash h and
\* block number b, the key-to-shard mapping returns (h + b div s) mod c.
C23_MapsToStripeModCount ==
    (shard_map.pc = "returned" /\ shard_map.count >= 1 /\ shard_map.stripe_size >= 1) =>
        shard_map.number = StripeModCount(shard_map.count, shard_map.stripe_size,
                                          shard_map.hash, shard_map.blkno)

C25_FirstNAttemptsFail ==
    \A op \in RemoteOps :
        \A i \in 1 .. Len(unreliable.calls[op]) :
            /\ i <= unreliable.attempts_to_fail => unreliable.calls[op][i] = "Err"
            /\ i = unreliable.attempts_to_fail + 1 => unreliable.calls[op][i] = "Inner"

\* ---------------------------------------------------------------- C26
\* C26: whenever an UninitializedTimeline that held a raw timeline has ceased
\* to exist (dropped, or consumed by finish_creation with Ok or Err), the
\* timeline was inserted into the tenant's timelines map or the cleanup of
\* its local directory was invoked.
C26_InsertedOrCleaned ==
    \A g \in GuardIds :
        (uninit.guards[g].pc = "dropped" /\ uninit.guards[g].held) =>
            (uninit.guards[g].inserted \/ uninit.guards[g].cleaned)

\* ---------------------------------------------------------------- C27
\* The guard exists: new returned it and it was not dropped yet.
GuardAlive(guard) == guard.pc \in {"alive", "finished"}

\* C27: colliding creations of a timeline id are blocked at every moment:
\* while a guard for the id is alive every other new for the id fails
\* (AlreadyExists once finish_creation has inserted the id, AlreadyCreating
\* before), after a successful finish_creation the id stays in the map and
\* every later new fails with AlreadyExists, once no guard is alive and the
\* id is not in the map new succeeds, and at most one guard per id is alive.
C27_CollidingCreationsBlocked ==
    [][/\ \A g \in GuardIds :
            (uninit.guards[g].pc = "none" /\ uninit'.guards[g].pc # "none") =>
               LET t == uninit'.guards[g].timeline_id
               IN IF t \in uninit.timelines
                  THEN /\ uninit'.guards[g].pc = "refused"
                       /\ uninit'.guards[g].error = "AlreadyExists"
                  ELSE IF \E h \in GuardIds : /\ GuardAlive(uninit.guards[h])
                                               /\ uninit.guards[h].timeline_id = t
                       THEN /\ uninit'.guards[g].pc = "refused"
                            /\ uninit'.guards[g].error = "AlreadyCreating"
                       ELSE uninit'.guards[g].pc = "alive"
       /\ \A g \in GuardIds :
            (uninit.guards[g].pc = "alive" /\ uninit'.guards[g].result = "Ok") =>
               uninit.guards[g].timeline_id \in uninit'.timelines
       /\ uninit.timelines \subseteq uninit'.timelines
       /\ \A g, h \in GuardIds :
            (/\ g # h
             /\ GuardAlive(uninit'.guards[g]) /\ GuardAlive(uninit'.guards[h])) =>
               uninit'.guards[g].timeline_id # uninit'.guards[h].timeline_id]_vars

\* A guard was dropped without finishing, a new for its id was refused while
\* it was alive, and a later new for the id succeeded.
C27_Witness ==
    \E g, h, k \in GuardIds, t \in Timelines :
        /\ uninit.guards[g].pc = "dropped" /\ uninit.guards[g].result = "none"
        /\ uninit.guards[h].pc = "refused" /\ uninit.guards[h].error = "AlreadyCreating"
        /\ uninit.guards[k].pc = "alive"
        /\ uninit.guards[g].timeline_id = t
        /\ uninit.guards[h].timeline_id = t
        /\ uninit.guards[k].timeline_id = t

\* ---------------------------------------------------------------- C28
\* C28: flush returns Ok only when the accumulator is empty and every key it
\* held at entry was part of a delete_objects call that returned Ok; the
\* accumulator is cleared only by such a call, a failed call leaves it as it
\* was and is retried unless the token fired, and flush returns ShuttingDown
\* if the cancellation token is set when it ends.
C28_FlushOkMeansExecuted ==
    [][/\ (executor.pc = "flush_end" /\ executor'.pc = "idle") =>
            /\ executor'.result = "Ok" =>
                  /\ executor'.accumulator = <<>>
                  /\ SeqRange(executor.entry) \subseteq executor.executed
            /\ executor'.result = (IF executor.cancel THEN "ShuttingDown" ELSE "Ok")
       /\ (executor.pc # "idle" /\ executor'.accumulator # executor.accumulator) =>
            /\ executor.pc = "remote_delete"
            /\ executor'.accumulator = <<>>
            /\ executor'.failures = executor.failures
            /\ executor'.executed = executor.executed \cup SeqRange(executor.accumulator)
       /\ executor'.failures = executor.failures + 1 =>
            /\ executor'.accumulator = executor.accumulator
            /\ executor'.executed = executor.executed
            /\ executor'.pc = "flush"
       /\ (executor.pc = "flush" /\ executor'.pc # "flush") =>
            (executor'.pc = "remote_delete"
                <=> (executor.accumulator # <<>> /\ ~executor.cancel))]_vars

\* A flush of a full accumulator saw a call fail, retried it and returned Ok.
C28_Witness ==
    /\ executor.pc = "idle" /\ executor.result = "Ok"
    /\ Len(executor.entry) = MaxKeys
    /\ executor.failures > 0
    /\ executor.accumulator = <<>>

\* ---------------------------------------------------------------- C29
\* The run of reconciler r went through the live-migration protocol and has
\* left it.
LiveMigrated(rec) ==
    /\ IsSome(rec.origin)
    /\ rec.pc \notin LiveMigrationPcs \cup {"idle", "reconcile"}

\* A general-case request of the run is on the wire.
GeneralCasePutPcs == {"attach_inflight", "change_inflight"}

\* Reconciler r sends a location_config request in this step.
SendsPut(r) ==
    /\ recs'[r].pc # "idle"
    /\ Len(recs'[r].log) > Len(recs[r].log)
    /\ recs'[r].log[Len(recs'[r].log)].op = "put"

\* C29: the general-case steps are executed only when the live-migration
\* special case returned without taking any action; after a live migration
\* was performed in a reconcile run, that run sends no further
\* location_config PUT and does not bump the generation again.
C29_NothingAfterLiveMigration ==
    [][\A r \in RecIds :
         /\ recs'[r].pc \in GeneralCasePutPcs => ~IsSome(recs'[r].origin)
         /\ LiveMigrated(recs[r]) =>
               /\ ~SendsPut(r)
               /\ recs'[r].pc # "idle" => recs'[r].generation = recs[r].generation]_vars

\* C29 as amended: the general-case steps also run after a live migration
\* that succeeded; such a run does not bump the generation again and sends
\* no further PUT to the destination, the only PUTs it still sends are
\* Secondary and Detached configurations without a generation.
C29_OnlyDemotionsAfterLiveMigration ==
    [][\A r \in RecIds :
         /\ (recs[r].pc = "lm_dest_single" /\ recs'[r].pc # "lm_dest_single") =>
               recs'[r].pc \in {"attach", "done"}
         /\ LiveMigrated(recs[r]) =>
               /\ recs'[r].pc # "idle" => recs'[r].generation = recs[r].generation
               /\ (recs[r].pc = "attach" /\ recs'[r].pc # "attach") => recs'[r].pc = "plan"
               /\ SendsPut(r) =>
                     LET put == recs'[r].log[Len(recs'[r].log)]
                     IN /\ put.mode \in {"Secondary", "Detached"}
                        /\ put.generation = None
                        /\ put.node # Unwrap(recs[r].destination)]_vars

\* A run that migrated the shard under policy Single then detached the origin
\* and ended in success.
C29_Witness ==
    \E r \in RecIds :
        /\ LiveMigrated(recs[r])
        /\ recs[r].pc = "done" /\ recs[r].result = "Ok"
        /\ recs[r].log[Len(recs[r].log)].op = "put"
        /\ recs[r].log[Len(recs[r].log)].mode = "Detached"
        /\ recs[r].log[Len(recs[r].log)].node = Unwrap(recs[r].origin)

\* ---------------------------------------------------------------- C30
\* C30: AttachedMulti and AttachedStale are transient: whenever no reconciler
\* is running for the shard (the last one having succeeded, failed or been
\* cancelled), no page server is left in AttachedMulti or AttachedStale.
C30_NoTransientModeAtRest ==
    (\A r \in RecIds : recs[r].pc = "idle") =>
        \A n \in Nodes : ps[n].mode \notin {"AttachedMulti", "AttachedStale"}

\* ---------------------------------------------------------------- C31
\* C31: LSN catch-up polling respects cancellation: once the cancellation
\* token of a reconciler that polls has fired, the polling loop stops and the
\* reconciler returns, even if the destination never reaches the baseline.
C31_CancelledPollingReturns ==
    \A r \in RecIds :
        (recs[r].cancel /\ recs[r].pc = "lm_await_lsn")
            ~> (recs[r].pc \in {"done", "idle"})

\* ---------------------------------------------------------------- C32
\* C32: when a node that the intent or the observed state refers to is not in
\* the registry snapshot, the reconcile ends by returning an error, its task
\* does not crash, and the observed entries of those nodes are None afterwards.
MissingNodes(r) ==
    {n \in Nodes :
        /\ recs[r].pageservers[n] = "Absent"
        /\ n \in all_pageservers(recs[r].intent) \cup ObservedKeys(recs[r].observed)}

C32_MissingNodeIsAnError ==
    \A r \in RecIds :
        (recs[r].pc # "idle" /\ MissingNodes(r) # {}) =>
            /\ recs[r].pc # "panicked"
            /\ recs[r].pc = "done" =>
                  /\ recs[r].result = "Err"
                  /\ \A n \in MissingNodes(r) : recs[r].observed[n] = Uncertain

\* ---------------------------------------------------------------- C33
\* C33: a sequence never decreases: Sequence::next yields the current value
\* plus one, and advancing the monotonic counter to a value below the current
\* one is rejected by the assertion and leaves the value as it was, while any
\* other value is taken.
C33_SequenceNeverDecreases ==
    [][/\ counter'.value >= counter.value
       /\ (counter' # counter /\ counter'.op = "next") =>
              counter'.value = counter.value + 1
       /\ (counter' # counter /\ counter'.op = "cnt_advance") =>
              IF Unwrap(counter'.v) < counter.value
              THEN counter'.pc = "panicked" /\ counter'.value = counter.value
              ELSE counter'.pc = "ready" /\ counter'.value = Unwrap(counter'.v)]_vars

\* An advance to a lower value was rejected.
C33_Witness ==
    /\ counter.pc = "panicked"
    /\ counter.op = "cnt_advance"
    /\ Unwrap(counter.v) < counter.value

\* ---------------------------------------------------------------- C34
\* C34: while background runs, the accumulator never holds more than
\* MAX_KEYS_PER_DELETE keys, whatever Delete messages arrive; a full
\* accumulator is flushed before more keys are taken, and the assertion that
\* it is empty after that flush never fails.
C34_AccumulatorBounded ==
    [][/\ Len(executor'.accumulator) <= MAX_KEYS_PER_DELETE
       /\ executor'.bg # "panicked"
       /\ executor'.pushed # executor.pushed =>
             Len(executor.accumulator) < MAX_KEYS_PER_DELETE]_vars

\* A Delete message longer than the accumulator: the flush of the full
\* accumulator returned Ok and the next keys were taken.
C34_Witness ==
    /\ executor.bg = "delete"
    /\ Len(executor.pushed) > MAX_KEYS_PER_DELETE
    /\ Len(executor.accumulator) = MAX_KEYS_PER_DELETE
    /\ executor.list # <<>>

\* ---------------------------------------------------------------- C35
\* C35: the FlushOp of a Flush message is fired only after flush returned Ok,
\* when every key of the Delete messages received before it has been part of
\* a delete_objects call that returned Ok and none is left in the
\* accumulator; when flush returns an error, background stops and the FlushOp
\* it holds is dropped without being fired.
FlushReturned(e) ==
    e.bg \in {"flush_msg", "flush_timeout", "flush_delete"} /\ e.pc = "idle"

C35_FiredOnlyAfterDeletes ==
    [][/\ executor'.fired # executor.fired =>
             /\ executor.bg = "flush_msg" /\ executor.result = "Ok"
             /\ executor'.fired = executor.fired \cup executor.flush_op
             /\ executor'.received \subseteq executor'.deleted
             /\ executor'.accumulator = <<>> /\ executor'.list = <<>>
       /\ (FlushReturned(executor) /\ executor.result # "Ok"
              /\ executor'.bg # executor.bg) =>
             /\ executor'.bg = "stopped"
             /\ executor'.fired = executor.fired
             /\ executor.flush_op \subseteq executor'.dropped
       /\ executor'.fired \cap executor'.dropped = {}]_vars

\* A FlushOp fired behind a Delete message that took more than one batch.
C35_Witness ==
    /\ executor.fired # {}
    /\ Cardinality(executor.received) > MAX_KEYS_PER_DELETE
    /\ executor.received \subseteq executor.deleted

\* ---------------------------------------------------------------- C39
\* C39: background neither loses nor duplicates a key: as long as it has not
\* stopped with ShuttingDown, every key of every Delete message it received
\* is still in the message's list or was pushed to the accumulator, exactly
\* once; and a key that was pushed is in the accumulator until a
\* delete_objects call with it returned Ok, and not any longer.
NoDuplicates(q) == Len(q) = Cardinality(SeqRange(q))

C39_NoKeyLostOrDuplicated ==
    /\ NoDuplicates(executor.pushed)
    /\ NoDuplicates(executor.accumulator)
    /\ SeqRange(executor.pushed) = SeqRange(executor.accumulator) \cup executor.deleted
    /\ SeqRange(executor.accumulator) \cap executor.deleted = {}
    /\ executor.bg # "stopped" =>
          /\ executor.received = SeqRange(executor.pushed) \cup SeqRange(executor.list)
          /\ SeqRange(executor.pushed) \cap SeqRange(executor.list) = {}
    /\ executor.bg \in {"loop", "recv"} => executor.list = <<>>

\* Delete messages of more keys than one batch were worked off: some keys
\* are deleted, the others wait in the accumulator.
C39_Witness ==
    /\ executor.bg = "recv" /\ executor.rx = <<>>
    /\ Cardinality(executor.received) > MAX_KEYS_PER_DELETE
    /\ executor.deleted # {}
    /\ executor.accumulator # <<>>
    /\ executor.received = SeqRange(executor.accumulator) \cup executor.deleted

\* ---------------------------------------------------------------- C36
\* C36: reconcile is idempotent on a converged shard: a run whose snapshot has
\* the attached node observed as AttachedSingle at the current generation,
\* the secondaries as Secondary(warm) and every other observed node as
\* Detached sends no location_config PUT, does not bump the generation and
\* sends no compute notification.
\* As long as reconciler r runs, the shard's state is r's snapshot.
Converged ==
    /\ IsSome(tenant.intent.attached)
    /\ \A n \in tenant.intent.attached :
          tenant.observed[n] = Known(attached_location_conf(tenant.generation))
    /\ \A n \in tenant.intent.secondary :
          tenant.observed[n] = Known(secondary_location_conf)
    /\ \A n \in ObservedKeys(tenant.observed) \ all_pageservers(tenant.intent) :
          tenant.observed[n] = Known(detached_location_conf)

C36_ConvergedRunDoesNothing ==
    \A r \in RecIds :
        (recs[r].pc # "idle" /\ Converged) =>
            /\ recs[r].log = <<>>
            /\ recs[r].generation = tenant.generation
            /\ compute = None

\* Amended: on a converged shard the run does not bump the generation, sends
\* no compute notification and sends no PUT to a node of its intent; what it
\* sends are Detached PUTs to the observed nodes outside the intent, and
\* nothing at all when there is no such node.
C36_ConvergedRunOnlyDetaches ==
    \A r \in RecIds :
        (recs[r].pc # "idle" /\ Converged) =>
            /\ recs[r].generation = tenant.generation
            /\ compute = None
            /\ \A i \in 1 .. Len(recs[r].log) :
                  /\ recs[r].log[i].op = "put"
                  /\ recs[r].log[i].mode = "Detached"
                  /\ recs[r].log[i].node \notin all_pageservers(recs[r].intent)
                  /\ tenant.observed[recs[r].log[i].node].present
            /\ ObservedKeys(tenant.observed) \subseteq all_pageservers(tenant.intent) =>
                  /\ recs[r].log = <<>>
                  /\ recs[r].pc = "done" => recs[r].result = "Ok"

\* A converged shard with a secondary and nothing else observed: the run
\* ended in success without a request.
C36_Witness ==
    \E r \in RecIds :
        /\ Converged
        /\ recs[r].pc = "done" /\ recs[r].result = "Ok"
        /\ IsSome(recs[r].intent.attached) /\ recs[r].intent.secondary # {}
        /\ recs[r].log = <<>>

\* ---------------------------------------------------------------- C37
\* C37: the reconciler sends location_config PUTs only to nodes that are not
\* Offline in its registry snapshot, so that a run started after a node went
\* Offline never fails on a request to that node.
PutToOffline(rec, i) ==
    /\ rec.log[i].op = "put"
    /\ rec.pageservers[rec.log[i].node] = "Offline"

C37_NoPutToOfflineNode ==
    \A r \in RecIds :
        /\ \A i \in 1 .. Len(recs[r].log) : ~PutToOffline(recs[r], i)
        /\ (recs[r].pc = "done" /\ recs[r].result = "Err" /\ recs[r].log # <<>>) =>
              ~PutToOffline(recs[r], Len(recs[r].log))

\* ---------------------------------------------------------------- C38
\* C38: when the compute notification of a live migration fails, the run
\* returns an error there and sends no further PUT: the origin is left in
\* AttachedStale, the destination in AttachedMulti at the bumped generation,
\* and the reconciler's observed entries of both are those of its snapshot.
NotifyFailed(rec, i) ==
    rec.log[i].op = "notify" /\ rec.log[i].status = Status(FALSE)

C40_RetryReturnsOk == <>(unreliable.result = "Ok")

====
